---------------------------- MODULE Spec2Model ----------------------------
(***************************************************************************)
(* A model of the operation-to-SQL translation rules of ibis:              *)
(*   src/ibis/backends/base/sql/registry/window.py   (string translator)   *)
(*   src/ibis/backends/base/sql/alchemy/registry.py  (SQLAlchemy rules)    *)
(*                                                                         *)
(* The rules are functions of (translator, node).  Every specification     *)
(* below draws a translator configuration and a node in Init and has one   *)
(* action per rule, which applies the rule to the node and records the     *)
(* outcome: the value returned or the exception raised, and the log of the *)
(* translate() calls the rule itself made, in order.                       *)
(***************************************************************************)
EXTENDS Integers, Sequences, FiniteSets, TLC

VARIABLES
    t,          \* the translator: its dialect capability flags
    RankBase,   \* the node kinds that are instances of ops.RankBase
    op,         \* the node (or boundary, or argument list) handed to the rule
    call,       \* the rule that was applied and its parameters; name "" before
    result      \* the outcome of the rule

vars == <<t, RankBase, op, call, result>>

(***************************************************************************)
(* Bounds of the model.                                                    *)
(***************************************************************************)
MaxValue == 5       \* literal boundary values are 0..MaxValue
MaxArgs == 3        \* a node has 0..MaxArgs arguments
MaxArity == 3       \* fixed_arity is built for the arities 0..MaxArity

(***************************************************************************)
(* Python values.                                                          *)
(***************************************************************************)
None == [node |-> "None"]

\* The outcome of a call: a returned value or a raised exception, with the
\* log of what the call did before it returned or raised.
Return(v, log) == [exc |-> "", val |-> v, log |-> log]
Raise(e, msg, log) == [exc |-> e, msg |-> msg, log |-> log]
NotRun == [exc |-> "-", log |-> <<>>]

Translated(node) == [ev |-> "translate", node |-> node]

(***************************************************************************)
(* Python integers are unbounded; the microsecond factors do not fit the   *)
(* checker's machine integers.  An integer n >= 0 is the pair <<hi, lo>>   *)
(* with n = hi * 10^6 + lo and 0 <= lo < 10^6.                             *)
(***************************************************************************)
Limb == 1000 * 1000

Num(n) == <<n \div Limb, n % Limb>>

\* a * b, for a or b below 10^6
Times(a, b) ==
    LET low == a[2] * b[2]
    IN  <<a[1] * b[2] + a[2] * b[1] + (low \div Limb), low % Limb>>

RECURSIVE Digits(_, _)
Digits(n, width) ==
    IF width = 0 THEN "" ELSE Digits(n \div 10, width - 1) \o ToString(n % 10)

\* str(n)
Str(n) == IF n[1] = 0 THEN ToString(n[2]) ELSE ToString(n[1]) \o Digits(n[2], 6)

(***************************************************************************)
(* Data types and value nodes.                                             *)
(***************************************************************************)
int64 == [name |-> "int64", unit |-> ""]
float64 == [name |-> "float64", unit |-> ""]
timestamp == [name |-> "timestamp", unit |-> ""]
boolean == [name |-> "boolean", unit |-> ""]
int32 == [name |-> "int32", unit |-> ""]
interval(unit) == [name |-> "interval", unit |-> unit]

is_numeric(dtype) == dtype.name \in {"int64", "float64"}
is_temporal(dtype) == dtype.name \in {"timestamp", "date", "time", "interval"}

Literal(value, dtype) == [node |-> "Literal", value |-> value, dtype |-> dtype]
Column(name, dtype) == [node |-> "Column", name |-> name, dtype |-> dtype]
Cast(arg, to) == [node |-> "Cast", arg |-> arg, dtype |-> to]
Multiply(left, right) ==
    [node |-> "Multiply", left |-> left, right |-> right, dtype |-> left.dtype]

WindowBoundary(value, preceding) ==
    [node |-> "WindowBoundary", value |-> value, preceding |-> preceding]

\* WindowBoundary.output_dtype is the data type of its value
output_dtype(boundary) == boundary.value.dtype

(***************************************************************************)
(* window.py: the microsecond factors                                      *)
(***************************************************************************)
_map_interval_to_microseconds ==
    [W  |-> <<604800, 0>>,      \* 604800000000
     D  |-> <<86400, 0>>,       \*  86400000000
     h  |-> <<3600, 0>>,        \*   3600000000
     m  |-> <<60, 0>>,          \*     60000000
     s  |-> <<1, 0>>,           \*      1000000
     ms |-> <<0, 1000>>,        \*         1000
     us |-> <<0, 1>>]           \*            1

\* the units of an interval data type
IntervalUnits == {"Y", "Q", "M", "W", "D", "h", "m", "s", "ms", "us", "ns"}

(***************************************************************************)
(* window.py: interval_boundary_to_integer                                 *)
(***************************************************************************)
interval_boundary_to_integer_no_scale(boundary) ==
    IF boundary = None THEN Return(None, <<>>)
    ELSE IF is_numeric(output_dtype(boundary)) THEN Return(boundary, <<>>)
    ELSE
        LET value == boundary.value
            unit == value.dtype.unit
        IN  IF unit \notin DOMAIN _map_interval_to_microseconds
            THEN Raise("IbisInputError", "Unsupported interval unit: " \o unit, <<>>)
            ELSE IF value.node = "Literal"
                 THEN Return([boundary EXCEPT !.value = Literal(value.value, int64)], <<>>)
                 ELSE Return([boundary EXCEPT !.value = Cast(value, int64)], <<>>)

interval_boundary_to_integer(boundary) ==
    IF boundary = None THEN Return(None, <<>>)
    ELSE IF is_numeric(output_dtype(boundary)) THEN Return(boundary, <<>>)
    ELSE
        LET value == boundary.value
            unit == value.dtype.unit
        IN  IF unit \notin DOMAIN _map_interval_to_microseconds
            THEN Raise("IbisInputError", "Unsupported interval unit: " \o unit, <<>>)
            ELSE
                LET multiplier == _map_interval_to_microseconds[unit]
                IN  IF value.node = "Literal"
                    THEN Return([boundary EXCEPT !.value =
                                    Literal(Times(value.value, multiplier), int64)], <<>>)
                    ELSE Return([boundary EXCEPT !.value =
                                    Multiply(Cast(value, int64),
                                             Literal(multiplier, int64))], <<>>)

(***************************************************************************)
(* Operation nodes.                                                        *)
(***************************************************************************)
Unregistered(dtype) == [node |-> "Unregistered", dtype |-> dtype]
SortKey(expr, ascending) ==
    [node |-> "SortKey", expr |-> expr, ascending |-> ascending, dtype |-> expr.dtype]
Alias(arg, name) == [node |-> "Alias", arg |-> arg, name |-> name]
WindowFunction(func, frame) == [node |-> "WindowFunction", func |-> func, frame |-> frame]

\* an analytic function or a reduction over one column
Func(kind, arg) == [node |-> kind, arg |-> arg]
RowNumber == [node |-> "RowNumber"]
NTile(arg, buckets) == [node |-> "NTile", arg |-> arg, buckets |-> buckets]

\* how is "rows" (RowsWindowFrame) or "range" (RangeWindowFrame)
WindowFrame(how, group_by, order_by, start, end, max_lookback) ==
    [how |-> how, group_by |-> group_by, order_by |-> order_by,
     start |-> start, end |-> end, max_lookback |-> max_lookback]

CumulativeOp ==
    {"CumulativeSum", "CumulativeMin", "CumulativeMax",
     "CumulativeMean", "CumulativeAny", "CumulativeAll"}

_cumulative_to_reduction ==
    [CumulativeSum  |-> "Sum",
     CumulativeMin  |-> "Min",
     CumulativeMax  |-> "Max",
     CumulativeMean |-> "Mean",
     CumulativeAny  |-> "Any",
     CumulativeAll  |-> "All"]

\* window.py, window(): _unsupported_reductions
_unsupported_reductions == {"ApproxMedian", "GroupConcat", "ApproxCountDistinct"}

\* the six rank-family kinds of the logical model
RankFamily == {"RowNumber", "DenseRank", "MinRank", "PercentRank", "CumeDist", "NTile"}

(***************************************************************************)
(* The translator's rewrite table: a set of <<kind, kind>> pairs; a rule   *)
(* turns a node of the first kind into one of the second, same arguments.  *)
(***************************************************************************)
HasRewrite(tr, kind) == \E r \in tr._rewrites : r[1] = kind
Rewrite(tr, node) ==
    [node EXCEPT !.node = (CHOOSE r \in tr._rewrites : r[1] = node.node)[2]]

\* an.windowize_function: the function windowed over the frame; an Alias
\* stays outside the window
windowize_function(expr, frame) ==
    IF expr.node = "Alias"
    THEN Alias(WindowFunction(expr.arg, frame), expr.name)
    ELSE WindowFunction(expr, frame)

\* what frame.copy(end=0) stores: the boundary of literal 0
CurrentRow == WindowBoundary(Literal(Num(0), int64), FALSE)

\* the log of `first` put before the outcome `r`
After(first, r) == [r EXCEPT !.log = first \o @]

RECURSIVE Join(_, _)
Join(texts, sep) ==
    IF texts = <<>> THEN ""
    ELSE IF Len(texts) = 1 THEN texts[1]
    ELSE texts[1] \o sep \o Join(Tail(texts), sep)

\* the SQL function names of the string registry
FuncName ==
    [Sum |-> "sum", Min |-> "min", Max |-> "max", Mean |-> "avg",
     Any |-> "any", All |-> "all",
     ApproxMedian |-> "appx_median", GroupConcat |-> "group_concat",
     ApproxCountDistinct |-> "ndv",
     DenseRank |-> "dense_rank", MinRank |-> "rank",
     PercentRank |-> "percent_rank", CumeDist |-> "cume_dist",
     RowNumber |-> "row_number"]

\* rank functions take no argument in SQL
NoArgFuncs == RankFamily

(***************************************************************************)
(* Sequencing.  Bind(r, K) is r followed by K on the value r returned: an  *)
(* exception raised by r propagates unchanged, and the logs add up.        *)
(***************************************************************************)
Bind(r, K(_)) == IF r.exc # "" THEN r ELSE After(r.log, K(r.val))

\* a translate() call seen from its caller: one log entry, the node
Logged(node, r) == [r EXCEPT !.log = <<Translated(node)>>]

(***************************************************************************)
(* The string translator.  translate() is ExprTranslator.translate: it     *)
(* applies a registered rewrite, then dispatches on the node's kind; the   *)
(* rule of WindowFunction is window() and the rule of NTile is ntile(),    *)
(* both of window.py.                                                      *)
(***************************************************************************)
RECURSIVE translate(_, _), TranslateAll(_, _), window(_, _)

\* window.py: ntile
ntile(tr, node) ==
    Bind(translate(tr, node.buckets),
         LAMBDA buckets : Return("ntile(" \o buckets \o ")", <<>>))

\* the rule the string registry gives a node
StringRule(tr, n) ==
    CASE n.node = "WindowFunction" -> window(tr, n)
      [] n.node = "NTile" -> ntile(tr, n)
      [] n.node = "Unregistered" ->
            Raise("OperationNotDefinedError", "No translation rule", <<>>)
      [] n.node = "Column" -> Return(n.name, <<>>)
      [] n.node = "Literal" ->
            Return(IF n.dtype.name = "interval"
                   THEN "INTERVAL " \o Str(n.value) \o " " \o n.dtype.unit
                   ELSE Str(n.value), <<>>)
      [] n.node = "Cast" ->
            Bind(translate(tr, n.arg),
                 LAMBDA arg : Return("CAST(" \o arg \o " AS bigint)", <<>>))
      [] n.node = "Multiply" ->
            Bind(translate(tr, n.left), LAMBDA left :
            Bind(translate(tr, n.right), LAMBDA right :
                Return(left \o " * " \o right, <<>>)))
      [] n.node = "SortKey" ->
            Bind(translate(tr, n.expr),
                 LAMBDA expr : Return(expr \o (IF n.ascending THEN "" ELSE " DESC"), <<>>))
      [] n.node \in NoArgFuncs -> Return(FuncName[n.node] \o "()", <<>>)
      [] OTHER ->
            Bind(translate(tr, n.arg),
                 LAMBDA arg : Return(FuncName[n.node] \o "(" \o arg \o ")", <<>>))

translate(tr, node) ==
    Logged(node, StringRule(tr, IF HasRewrite(tr, node.node)
                                THEN Rewrite(tr, node) ELSE node))

RECURSIVE TranslateAll_skipping(_, _)
\* the map leaving out the nodes whose translation raises
TranslateAll_skipping(tr, nodes) ==
    IF nodes = <<>> THEN Return(<<>>, <<>>)
    ELSE IF translate(tr, Head(nodes)).exc # ""
    THEN After(<<Translated(Head(nodes))>>, TranslateAll_skipping(tr, Tail(nodes)))
    ELSE Bind(translate(tr, Head(nodes)), LAMBDA head :
         Bind(TranslateAll_skipping(tr, Tail(nodes)), LAMBDA rest :
            Return(<<head>> \o rest, <<>>)))

\* map(translator.translate, nodes): left to right, stopping at the first
\* that raises
TranslateAll(tr, nodes) ==
    IF nodes = <<>> THEN Return(<<>>, <<>>)
    ELSE Bind(translate(tr, Head(nodes)), LAMBDA head :
         Bind(TranslateAll(tr, Tail(nodes)), LAMBDA rest :
            Return(<<head>> \o rest, <<>>)))

(***************************************************************************)
(* window.py: cumulative_to_window                                         *)
(***************************************************************************)
cumulative_to_window_keep_bounds(tr, func, frame) ==
    LET klass == _cumulative_to_reduction[func.node]
        plain == [func EXCEPT !.node = klass]
        rewritten == IF HasRewrite(tr, klass) THEN Rewrite(tr, plain) ELSE plain
    IN  windowize_function(rewritten, frame)

cumulative_to_window(tr, func, frame) ==
    LET klass == _cumulative_to_reduction[func.node]
        plain == [func EXCEPT !.node = klass]
        rewritten == IF HasRewrite(tr, klass) THEN Rewrite(tr, plain) ELSE plain
        frame2 == [frame EXCEPT !.start = None, !.end = CurrentRow]
    IN  windowize_function(rewritten, frame2)

(***************************************************************************)
(* window.py: time_range_to_range_window                                   *)
(***************************************************************************)
time_range_to_range_window_start_only(frame) ==
    IF Len(frame.order_by) > 1
    THEN Raise("IbisInputError", "Expected 1 order-by variable, got "
                                    \o ToString(Len(frame.order_by)), <<>>)
    ELSE Bind(interval_boundary_to_integer(frame.start), LAMBDA start :
            Return([frame EXCEPT
                        !.order_by = <<SortKey(Cast(frame.order_by[1].expr, int64),
                                               frame.order_by[1].ascending)>>,
                        !.start = start], <<>>))

time_range_to_range_window(frame) ==
    IF Len(frame.order_by) > 1
    THEN Raise("IbisInputError", "Expected 1 order-by variable, got "
                                    \o ToString(Len(frame.order_by)), <<>>)
    ELSE Bind(interval_boundary_to_integer(frame.start), LAMBDA start :
         Bind(interval_boundary_to_integer(frame.end), LAMBDA end :
            Return([frame EXCEPT
                        !.order_by = <<SortKey(Cast(frame.order_by[1].expr, int64),
                                               frame.order_by[1].ascending)>>,
                        !.start = start,
                        !.end = end], <<>>)))

(***************************************************************************)
(* window.py: format_window_boundary                                       *)
(***************************************************************************)
format_window_boundary_by_direction(tr, boundary) ==
    IF boundary.value.node = "Literal" /\ boundary.value.value = Num(0)
       /\ boundary.preceding
    THEN Return("CURRENT ROW", <<>>)
    ELSE Bind(translate(tr, boundary.value), LAMBDA value :
            Return(value \o " "
                    \o (IF boundary.preceding THEN "PRECEDING" ELSE "FOLLOWING"), <<>>))

format_window_boundary(tr, boundary) ==
    IF boundary.value.node = "Literal" /\ boundary.value.value = Num(0)
    THEN Return("CURRENT ROW", <<>>)
    ELSE Bind(translate(tr, boundary.value), LAMBDA value :
            Return(value \o " "
                    \o (IF boundary.preceding THEN "PRECEDING" ELSE "FOLLOWING"), <<>>))

(***************************************************************************)
(* window.py: format_window_frame                                          *)
(***************************************************************************)
\* lines 104-119: the frame clause appended to components, <<>> when none is
frame_clause_always(tr, func, frame) ==
    IF func.node \notin tr._forbids_frame_clause
    THEN Bind(IF frame.start = None
              THEN Return("UNBOUNDED PRECEDING", <<>>)
              ELSE format_window_boundary(tr, frame.start), LAMBDA start :
         Bind(IF frame.end = None
              THEN Return("UNBOUNDED FOLLOWING", <<>>)
              ELSE format_window_boundary(tr, frame.end), LAMBDA end :
            Return(<<(IF frame.how = "rows" THEN "ROWS" ELSE "RANGE")
                        \o " BETWEEN " \o start \o " AND " \o end>>, <<>>)))
    ELSE Return(<<>>, <<>>)

frame_clause(tr, func, frame) ==
    IF frame.start = None /\ frame.end = None THEN Return(<<>>, <<>>)
    ELSE IF func.node \notin tr._forbids_frame_clause
    THEN Bind(IF frame.start = None
              THEN Return("UNBOUNDED PRECEDING", <<>>)
              ELSE format_window_boundary(tr, frame.start), LAMBDA start :
         Bind(IF frame.end = None
              THEN Return("UNBOUNDED FOLLOWING", <<>>)
              ELSE format_window_boundary(tr, frame.end), LAMBDA end :
            Return(<<(IF frame.how = "rows" THEN "ROWS" ELSE "RANGE")
                        \o " BETWEEN " \o start \o " AND " \o end>>, <<>>)))
    ELSE Return(<<>>, <<>>)

format_window_frame(tr, func, frame) ==
    Bind(TranslateAll(tr, frame.group_by), LAMBDA partition_args :
    Bind(TranslateAll(tr, frame.order_by), LAMBDA order_args :
    Bind(frame_clause(tr, func, frame), LAMBDA clause :
        Return("OVER ("
                \o Join((IF frame.group_by # <<>>
                         THEN <<"PARTITION BY " \o Join(partition_args, ", ")>>
                         ELSE <<>>)
                        \o (IF frame.order_by # <<>>
                            THEN <<"ORDER BY " \o Join(order_args, ", ")>>
                            ELSE <<>>)
                        \o clause, " ")
                \o ")", <<>>))))

(***************************************************************************)
(* window.py: window                                                       *)
(***************************************************************************)
\* the ORDER BY synthesized whatever keys the frame has
with_order_by_always(tr, func, frame) ==
    IF func.node \in tr._require_order_by
    THEN [frame EXCEPT !.order_by = <<SortKey(func.arg, TRUE)>>]
    ELSE frame

\* lines 140-144: the ORDER BY synthesized from the function's argument
with_order_by(tr, func, frame) ==
    IF func.node \in tr._require_order_by /\ frame.order_by = <<>>
    THEN [frame EXCEPT !.order_by = <<SortKey(func.arg, TRUE)>>]
    ELSE frame

\* lines 146-154
normalize_frame_ignore_lookback(frame) ==
    IF frame.how = "range"
           /\ \E i \in DOMAIN frame.order_by : is_temporal(frame.order_by[i].dtype)
    THEN time_range_to_range_window(frame)
    ELSE Return(frame, <<>>)

\* every range frame with an order key converted
normalize_frame_every_range(frame) ==
    IF frame.how = "range"
    THEN IF frame.order_by # <<>>
         THEN time_range_to_range_window(frame)
         ELSE Return(frame, <<>>)
    ELSE IF frame.how = "rows"
    THEN IF frame.max_lookback # None
         THEN Raise("NotImplementedError",
                    "Rows with max lookback is not implemented for SQL-based backends.",
                    <<>>)
         ELSE Return(frame, <<>>)
    ELSE Return(frame, <<>>)

normalize_frame(frame) ==
    IF frame.how = "range"
    THEN IF \E i \in DOMAIN frame.order_by : is_temporal(frame.order_by[i].dtype)
         THEN time_range_to_range_window(frame)
         ELSE Return(frame, <<>>)
    ELSE IF frame.how = "rows"
    THEN IF frame.max_lookback # None
         THEN Raise("NotImplementedError",
                    "Rows with max lookback is not implemented for SQL-based backends.",
                    <<>>)
         ELSE Return(frame, <<>>)
    ELSE Return(frame, <<>>)

\* lines 161-164
zero_based(func, text) ==
    IF func.node \in RankBase THEN "(" \o text \o " - 1)" ELSE text

\* lines 131-134
is_unsupported_reduction_never(func) == FALSE

is_unsupported_reduction(func) == func.node \in _unsupported_reductions

window(tr, node) ==
    IF is_unsupported_reduction(node.func)
    THEN Raise("UnsupportedOperationError",
               node.func.node \o " is not supported in window functions", <<>>)
    ELSE IF node.func.node \in CumulativeOp
    THEN translate(tr, cumulative_to_window(tr, node.func, node.frame))
    ELSE Bind(normalize_frame(with_order_by(tr, node.func, node.frame)), LAMBDA frame :
         Bind(format_window_frame(tr, node.func, frame), LAMBDA window_formatted :
         Bind(translate(tr, node.func), LAMBDA arg_formatted :
            Return(zero_based(node.func, arg_formatted \o " " \o window_formatted),
                   <<>>))))

(***************************************************************************)
(* What window() leaves of the frame it was given.  The frame, its order   *)
(* keys and its boundaries are objects; the copy method makes a new        *)
(* object that shares with the receiver the objects of the fields it does  *)
(* not override.  A copy is the record of the receiver afterwards, the     *)
(* object made, and whether the object made is a new one.                  *)
(***************************************************************************)
\* a copy writing the overrides into the receiver
copy_in_place(obj, changed) == [receiver |-> changed, made |-> changed, is_new |-> FALSE]

copy(obj, changed) == [receiver |-> obj, made |-> changed, is_new |-> TRUE]

\* lines 45-65: the boundary interval_boundary_to_integer was given,
\* afterwards; line 65 is the copy
boundary_after(boundary) ==
    IF boundary = None THEN boundary
    ELSE IF is_numeric(output_dtype(boundary)) THEN boundary
    ELSE IF interval_boundary_to_integer(boundary).exc # "" THEN boundary
    ELSE copy(boundary, interval_boundary_to_integer(boundary).val).receiver

\* lines 68-80: the frame time_range_to_range_window was given, afterwards;
\* lines 76 and 80 are the copies, 77 and 78 may raise
frame_after_time_range(frame) ==
    IF Len(frame.order_by) > 1 THEN frame
    ELSE LET order_by == frame.order_by[1]
             keyed == [frame EXCEPT !.order_by[1] =
                          copy(order_by, SortKey(Cast(order_by.expr, int64),
                                                 order_by.ascending)).receiver]
             started == [keyed EXCEPT !.start = boundary_after(frame.start)]
             ended == [started EXCEPT !.end = boundary_after(frame.end)]
         IN  IF interval_boundary_to_integer(frame.start).exc # "" THEN keyed
             ELSE IF interval_boundary_to_integer(frame.end).exc # "" THEN started
             ELSE copy(ended, time_range_to_range_window(frame).val).receiver

\* lines 146-154: the frame held by the local name `frame`, afterwards
frame_after_conversion(frame) ==
    IF frame.how = "range"
           /\ \E i \in DOMAIN frame.order_by : is_temporal(frame.order_by[i].dtype)
    THEN frame_after_time_range(frame)
    ELSE frame

\* lines 140-154: the frame window() was given, afterwards; line 144 is a
\* copy, and the frame it makes has keys of its own and the boundaries of
\* the frame given
frame_after_normalize(tr, func, given) ==
    IF func.node \in tr._require_order_by /\ given.order_by = <<>>
    THEN LET ordered == copy(given, with_order_by(tr, func, given))
         IN  IF ordered.is_new
             THEN [ordered.receiver EXCEPT
                     !.start = frame_after_conversion(ordered.made).start,
                     !.end = frame_after_conversion(ordered.made).end]
             ELSE frame_after_conversion(ordered.made)
    ELSE frame_after_conversion(given)

\* lines 29-42 and 136-138: line 40 is a copy, and the frame it makes has
\* boundaries of its own and the keys of the frame given; window() then
\* runs on the node made
frame_after_cumulative(tr, func, given) ==
    LET framed == copy(given, cumulative_to_window(tr, func, given).frame)
        rewritten == cumulative_to_window(tr, func, given).func
    IN  IF framed.is_new
        THEN [framed.receiver EXCEPT
                !.order_by = frame_after_normalize(tr, rewritten, framed.made).order_by]
        ELSE frame_after_normalize(tr, rewritten, framed.made)

\* lines 124-164: no statement of window() assigns to a field of the node
\* or of its frame
frame_after_window(tr, node) ==
    IF is_unsupported_reduction(node.func) THEN node.frame
    ELSE IF node.func.node \in CumulativeOp
    THEN frame_after_cumulative(tr, node.func, node.frame)
    ELSE frame_after_normalize(tr, node.func, node.frame)

(***************************************************************************)
(* The SQLAlchemy translator.  A fragment is a record tagged sa:           *)
(*   column, literal, null, select, scalar_subquery, func (a call of a SQL *)
(*   function), case, filter, binary, over.                                *)
(***************************************************************************)
PyInt(n) == [node |-> "int", value |-> n]
\* the value without the sign
Neg_unsigned(n) == n

Neg(n) == <<0 - n[1], 0 - n[2]>>

SaColumn(name) == [sa |-> "column", name |-> name]
SaLiteral(value) == [sa |-> "literal", value |-> value]
SaNull == [sa |-> "null"]
SaSelect(table) == [sa |-> "select", table |-> table]
SaFunc(name, args) == [sa |-> "func", name |-> name, args |-> args]
SaCase(when, then, else_) == [sa |-> "case", when |-> when, then |-> then, else_ |-> else_]
SaFilter(element, criterion) == [sa |-> "filter", element |-> element, criterion |-> criterion]
SaBinary(operator, left, right) ==
    [sa |-> "binary", operator |-> operator, left |-> left, right |-> right]
SaOver(element, partition_by, order_by, how, bounds) ==
    [sa |-> "over", element |-> element, partition_by |-> partition_by,
     order_by |-> order_by, how |-> how, bounds |-> bounds]

\* a Select offers scalar_subquery(); a column element does not
HasScalarSubquery(fragment) == fragment.sa = "select"
scalar_subquery(fragment) == [sa |-> "scalar_subquery", element |-> fragment]

\* op.args: the node's arguments, in order
Args(node) ==
    IF "args" \in DOMAIN node THEN node.args
    ELSE IF "arg" \in DOMAIN node THEN <<node.arg>>
    ELSE <<>>

\* sa_func(*trans_args); the rank lambdas of the registry drop their argument
DropsArgs == {"dense_rank", "rank", "percent_rank", "cume_dist"}
SaCall(sa_func, trans_args) ==
    IF sa_func = "case"
    THEN SaCase(trans_args[1], trans_args[2], trans_args[3])
    ELSE SaFunc(sa_func, IF sa_func \in DropsArgs THEN <<>> ELSE trans_args)

Called(sa_func, trans_args) == [ev |-> "call", fn |-> sa_func, args |-> trans_args]

RECURSIVE alchemy_translate(_, _), varargs_loop(_, _, _), AlchemyTranslateAll(_, _)

(***************************************************************************)
(* registry.py: _varargs_call, fixed_arity, varargs                        *)
(***************************************************************************)
\* the conversion left out
coerce_never(arg) == arg

\* lines 55-56
coerce(arg) == IF HasScalarSubquery(arg) THEN scalar_subquery(arg) ELSE arg

RECURSIVE varargs_loop_reversed(_, _, _)
\* the loop taking the arguments from the right
varargs_loop_reversed(tr, args, done) ==
    IF args = <<>> THEN Return(done, <<>>)
    ELSE Bind(alchemy_translate(tr, args[Len(args)]), LAMBDA arg :
            varargs_loop_reversed(tr, SubSeq(args, 1, Len(args) - 1),
                                  <<coerce(arg)>> \o done))

\* lines 53-57: the loop over args, trans_args so far in `done`
varargs_loop(tr, args, done) ==
    IF args = <<>> THEN Return(done, <<>>)
    ELSE Bind(alchemy_translate(tr, Head(args)), LAMBDA arg :
            varargs_loop(tr, Tail(args), Append(done, coerce(arg))))

_varargs_call(sa_func, tr, args) ==
    Bind(varargs_loop(tr, args, <<>>), LAMBDA trans_args :
        Return(SaCall(sa_func, trans_args), <<Called(sa_func, trans_args)>>))

fixed_arity_at_least(sa_func, arity, tr, node) ==
    IF arity > Len(Args(node))
    THEN Raise("IbisError", "Incorrect number of args. Expected: "
                   \o ToString(arity) \o ". Current: " \o ToString(Len(Args(node))),
               <<>>)
    ELSE _varargs_call(sa_func, tr, Args(node))

fixed_arity(sa_func, arity, tr, node) ==
    IF arity # Len(Args(node))
    THEN Raise("IbisError", "Incorrect number of args. Expected: "
                   \o ToString(arity) \o ". Current: " \o ToString(Len(Args(node))),
               <<>>)
    ELSE _varargs_call(sa_func, tr, Args(node))

unary(sa_func, tr, node) == fixed_arity(sa_func, 1, tr, node)

\* op.arg of a varargs node is the tuple of its arguments
varargs(sa_func, tr, node) == _varargs_call(sa_func, tr, node.arg)

(***************************************************************************)
(* registry.py: the rules of the nodes the model draws                     *)
(***************************************************************************)
NullLiteral == [node |-> "NullLiteral"]
Where(bool_expr, true_expr, false_null_expr) ==
    [node |-> "Where", args |-> <<bool_expr, true_expr, false_null_expr>>]
Greater(left, right) == [node |-> "Greater", args |-> <<left, right>>]
CountStar(where) == [node |-> "CountStar", where |-> where]
TableArrayView(table) == [node |-> "TableArrayView", table |-> table]

\* the SQL function of each entry of the registry that is built from one
SaFuncName ==
    [Sum |-> "sum", Min |-> "min", Max |-> "max", Mean |-> "avg",
     ApproxCountDistinct |-> "count_distinct", GroupConcat |-> "group_concat",
     RowNumber |-> "row_number", DenseRank |-> "dense_rank", MinRank |-> "rank",
     PercentRank |-> "percent_rank", CumeDist |-> "cume_dist",
     CumulativeMax |-> "max", CumulativeMin |-> "min", CumulativeSum |-> "sum",
     CumulativeMean |-> "avg", CumulativeAny |-> "bool_or",
     CumulativeAll |-> "bool_and",
     Greater |-> "gt", Where |-> "case"]

\* sqlalchemy_operation_registry: the kinds registered as reduction(...)
Reductions == {"Sum", "Min", "Max", "Mean", "ApproxCountDistinct", "GroupConcat"}

\* the kinds registered as unary(...)
Unaries ==
    {"DenseRank", "MinRank", "PercentRank", "CumeDist",
     "CumulativeMax", "CumulativeMin", "CumulativeSum",
     "CumulativeMean", "CumulativeAny", "CumulativeAll"}

\* lines 206-209
_alias(tr, node) == alchemy_translate(tr, node.arg)

\* lines 212-224, for a scalar value
_literal(tr, node) == Return(SaLiteral(node.value), <<>>)

\* lines 392-393
_ntile(tr, node) ==
    Bind(alchemy_translate(tr, node.buckets),
         LAMBDA buckets : Return(SaFunc("ntile", <<buckets>>), <<>>))

\* lines 396-398
_sort_key(tr, node) ==
    Bind(alchemy_translate(tr, node.expr),
         LAMBDA expr : Return(SaFunc(IF node.ascending THEN "asc" ELSE "desc",
                                     <<expr>>), <<>>))

\* AlchemyExprTranslator._reduction, for a reduction without a filter
_reduction(sa_func, tr, node) ==
    Bind(alchemy_translate(tr, node.arg),
         LAMBDA arg : Return(SaFunc(sa_func, <<arg>>), <<>>))

(***************************************************************************)
(* registry.py: _count_star                                                *)
(***************************************************************************)
\* line 467
has_reduction_filter_syntax_never(tr) == FALSE

has_reduction_filter_syntax(tr) == tr._has_reduction_filter_syntax

_count_star(tr, node) ==
    IF node.where = None THEN Return(SaFunc("count", <<>>), <<>>)
    ELSE IF has_reduction_filter_syntax(tr)
    THEN Bind(alchemy_translate(tr, node.where), LAMBDA where :
            Return(SaFilter(SaFunc("count", <<>>), where), <<>>))
    ELSE Bind(alchemy_translate(tr, Where(node.where, Literal(Num(1), int64),
                                          NullLiteral)), LAMBDA arg :
            Return(SaFunc("count", <<arg>>), <<>>))

(***************************************************************************)
(* registry.py: _cumulative_to_window                                      *)
(***************************************************************************)
_cumulative_to_window(tr, node, frame) ==
    LET klass == _cumulative_to_reduction[node.node]
        new_op == [node EXCEPT !.node = klass]
        new_frame == [frame EXCEPT !.start = None, !.end = CurrentRow]
        new_expr == IF HasRewrite(tr, klass)
                    THEN Alias(Rewrite(tr, new_op), node.node)
                    ELSE Alias(new_op, node.node)
    IN  windowize_function(new_expr, new_frame)

(***************************************************************************)
(* registry.py: _translate_window_boundary                                 *)
(***************************************************************************)
\* a boundary that is not a literal taken as absent
_translate_window_boundary_lenient(boundary) ==
    IF boundary = None THEN Return(None, <<>>)
    ELSE IF boundary.value.node = "Literal"
    THEN IF boundary.preceding
         THEN Return(PyInt(Neg(boundary.value.value)), <<>>)
         ELSE Return(PyInt(boundary.value.value), <<>>)
    ELSE Return(None, <<>>)

_translate_window_boundary(boundary) ==
    IF boundary = None THEN Return(None, <<>>)
    ELSE IF boundary.value.node = "Literal"
    THEN IF boundary.preceding
         THEN Return(PyInt(Neg(boundary.value.value)), <<>>)
         ELSE Return(PyInt(boundary.value.value), <<>>)
    ELSE Raise("TranslationError", "Window boundaries must be literal values", <<>>)

(***************************************************************************)
(* registry.py: _window_function                                           *)
(***************************************************************************)
\* lines 338-341
window_order_by(tr, func, frame) ==
    IF func.node \in tr._require_order_by /\ frame.order_by = <<>>
    THEN Bind(alchemy_translate(tr, func.arg), LAMBDA arg : Return(<<arg>>, <<>>))
    ELSE AlchemyTranslateAll(tr, frame.order_by)

\* lines 345-355
frame_how(frame) ==
    IF frame.how = "rows"
    THEN IF frame.max_lookback # None
         THEN Raise("NotImplementedError",
                    "Rows with max lookback is not implemented for SQLAlchemy-based backends.",
                    <<>>)
         ELSE Return("rows", <<>>)
    ELSE IF frame.how = "range" THEN Return("range_", <<>>)
    ELSE Raise("NotImplementedError", frame.how, <<>>)

\* the frame clause passed for every function
additional_params_always(tr, func, frame, how) ==
    Bind(_translate_window_boundary(frame.start), LAMBDA start :
    Bind(_translate_window_boundary(frame.end), LAMBDA end :
        Return(<<how, <<start, end>>>>, <<>>)))

\* lines 357-363: <<how, <<start, end>>>>, or <<"", <<>>>> for no frame clause
additional_params(tr, func, frame, how) ==
    IF tr._forbids_frame_clause # {} /\ func.node \in tr._forbids_frame_clause
    THEN Return(<<"", <<>>>>, <<>>)
    ELSE Bind(_translate_window_boundary(frame.start), LAMBDA start :
         Bind(_translate_window_boundary(frame.end), LAMBDA end :
            Return(<<how, <<start, end>>>>, <<>>)))

\* lines 369-372
minus_one_never(func, fragment) == fragment

minus_one(func, fragment) ==
    IF func.node \in {"RowNumber", "DenseRank", "MinRank", "NTile"}
    THEN SaBinary("-", fragment, PyInt(Num(1)))
    ELSE fragment

_window_function(tr, node) ==
    IF node.func.node \in CumulativeOp
    THEN alchemy_translate(tr, _cumulative_to_window(tr, node.func, node.frame))
    ELSE Bind(alchemy_translate(tr, node.func), LAMBDA reduction :
         Bind(window_order_by(tr, node.func, node.frame), LAMBDA order_by :
         Bind(AlchemyTranslateAll(tr, node.frame.group_by), LAMBDA partition_by :
         Bind(frame_how(node.frame), LAMBDA how :
         Bind(additional_params(tr, node.func, node.frame, how), LAMBDA params :
            Return(minus_one(node.func,
                             SaOver(reduction, partition_by, order_by,
                                    params[1], params[2])), <<>>))))))

(***************************************************************************)
(* The compilation context: the chain of scopes from the current one       *)
(* (first) to the root (last).  A scope maps a table's name to the SQL     *)
(* reference bound to it in that scope, or to None.  The root is its own   *)
(* parent.                                                                 *)
(***************************************************************************)
Table(name, is_alchemy) == [node |-> "Table", name |-> name, is_alchemy |-> is_alchemy]
TableColumn(table, name) == [node |-> "TableColumn", table |-> table, name |-> name]

\* a SQL relation: the reference bound in scope `level`, a table's own
\* sqla_table (level 0), or a compiled table expression (level 0); is_select
\* says whether it offers subquery(), prefixed whether its exported columns
\* carry table-prefixed names
Relation(kind, of, level, is_select, prefixed) ==
    [sa |-> kind, of |-> of, level |-> level, is_select |-> is_select,
     prefixed |-> prefixed]

parent(ctx, level) == IF level = Len(ctx) THEN level ELSE level + 1

\* ctx.get_ref(table), at the scope `level` of the chain
get_ref(ctx, level, table) == ctx[level][table.name]

\* ctx.has_ref(table, parent_contexts)
has_ref(ctx, table, parent_contexts) ==
    \E level \in (IF parent_contexts THEN DOMAIN ctx ELSE {1}) :
        get_ref(ctx, level, table) # None

\* ctx.is_foreign_expr(table)
is_foreign_expr(ctx, table) == ~has_ref(ctx, table, FALSE)

\* ctx.get_compiled_expr(table)
get_compiled_expr(ctx, table) == Relation("compiled", table.name, 0, TRUE, FALSE)

GotRef(level) == [ev |-> "get_ref", level |-> level]

(***************************************************************************)
(* registry.py: get_sqla_table                                             *)
(***************************************************************************)
RECURSIVE walk_outermost(_, _, _)
\* the walk that keeps moving outward past a binding
walk_outermost(ctx, level, table) ==
    IF parent(ctx, level) # level
           /\ \E outer \in (level + 1)..Len(ctx) : get_ref(ctx, outer, table) # None
    THEN After(<<GotRef(level)>>, walk_outermost(ctx, parent(ctx, level), table))
    ELSE Return(get_ref(ctx, level, table), <<GotRef(level)>>)

\* the loop going on for as long as there is no binding
walks_on_while_none(ctx, level, sa_table) == sa_table = None

\* line 72: the condition of the loop
walks_on(ctx, level, sa_table) == sa_table = None /\ parent(ctx, level) # level

RECURSIVE walk(_, _, _)
\* lines 70-74: sa_table after get_ref at `level` and the loop from there
walk(ctx, level, table) ==
    IF get_ref(ctx, level, table) = None /\ parent(ctx, level) # level
    THEN After(<<GotRef(level)>>, walk(ctx, parent(ctx, level), table))
    ELSE Return(get_ref(ctx, level, table), <<GotRef(level)>>)

get_sqla_table(ctx, table) ==
    IF has_ref(ctx, table, TRUE) THEN walk(ctx, 1, table)
    ELSE IF table.is_alchemy
    THEN Return(Relation("table", table.name, 0, FALSE, FALSE), <<>>)
    ELSE Return(get_compiled_expr(ctx, table), <<>>)

(***************************************************************************)
(* registry.py: get_col, _table_column                                     *)
(***************************************************************************)
SaTableColumn(sa_table, name, quote) ==
    [sa |-> "column", table |-> sa_table, name |-> name, quote |-> quote]
Subquery(sa_table) == [sa |-> "subquery", element |-> sa_table]
\* sa.select(subq.c[name])
SaSelectColumn(subq, name) == [sa |-> "select", table |-> subq, column |-> name]

\* lines 83-103: the column found by name, or by position when the
\* exported names are prefixed; its quote attribute is `quote`
get_col(sa_table, node, quote) ==
    SaTableColumn(sa_table,
                  IF sa_table.prefixed THEN sa_table.of \o "_" \o node.name
                  ELSE node.name,
                  quote)

\* line 113: the quote attribute of the column after the assignment
quote_flipped(tr) == ~tr.quote

quote_assigned(tr) == tr._always_quote_columns

\* line 117
wants_subquery_when_bound_nowhere(tr, table) ==
    tr.permit_subquery /\ ~has_ref(tr.context, table, TRUE)

wants_subquery(tr, table) ==
    tr.permit_subquery /\ is_foreign_expr(tr.context, table)

\* lines 118-122
select_column(sa_table, out_expr) ==
    SaSelectColumn(IF sa_table.is_select THEN Subquery(sa_table) ELSE sa_table,
                   out_expr.name)

_table_column(tr, node) ==
    Bind(get_sqla_table(tr.context, node.table), LAMBDA sa_table :
        IF wants_subquery(tr, node.table)
        THEN Return(select_column(sa_table,
                                  get_col(sa_table, node, quote_assigned(tr))), <<>>)
        ELSE Return(get_col(sa_table, node, quote_assigned(tr)), <<>>))

(***************************************************************************)
(* registry.py: _exists_subquery.  The context's subcontext() and the      *)
(* compiler's to_sql() belong to the query builder: subcontext() returns   *)
(* a new scope whose parent is the receiver; to_sql() compiles a table     *)
(* expression under the context it is handed, binding the expression's     *)
(* table in that context's own scope, and fails on a predicate that has    *)
(* no translation rule.                                                    *)
(***************************************************************************)
ExistsSubquery(foreign_table, predicates) ==
    [node |-> "ExistsSubquery", foreign_table |-> foreign_table,
     predicates |-> predicates]
NotExistsSubquery(foreign_table, predicates) ==
    [node |-> "NotExistsSubquery", foreign_table |-> foreign_table,
     predicates |-> predicates]

SaExists(query) == [sa |-> "exists", query |-> query]
SaNot(clause) == [sa |-> "not", clause |-> clause]

\* lines 145-151: foreign_table.filter(predicates).projection([literal(1)])
filtered(node) ==
    [node |-> "Projection",
     table |-> [node |-> "Selection", table |-> node.foreign_table,
                predicates |-> node.predicates],
     selections |-> <<Alias(Literal(1, [name |-> "int8", unit |-> ""]), "")>>]

\* ctx.subcontext()
subcontext(ctx) == <<[name \in DOMAIN ctx[1] |-> None]>> \o ctx

\* the context `ctx` once an expression has been compiled under it
compiled_under(ctx, expr) ==
    [ctx EXCEPT ![1][expr.table.table.name] =
        Relation("alias", expr.table.table.name, 0, TRUE, FALSE)]

\* ctx.compiler.to_sql(expr, ctx, exists)
to_sql(expr, ctx, exists) ==
    IF \E i \in DOMAIN expr.table.predicates :
            expr.table.predicates[i].node = "Unregistered"
    THEN Raise("OperationNotDefinedError", "No translation rule",
               <<Called("to_sql", <<expr, ctx, exists>>)>>)
    ELSE Return(IF exists THEN SaExists(expr) ELSE SaSelect(expr),
                <<Called("to_sql", <<expr, ctx, exists>>)>>)

\* the subquery compiled under the current context
_exists_subquery_under_current(tr, node) ==
    After(<<Called("subcontext", <<tr.context>>)>>,
          Bind(to_sql(filtered(node), tr.context, TRUE), LAMBDA clause :
              Return(IF node.node = "NotExistsSubquery" THEN SaNot(clause)
                     ELSE clause, <<>>)))

_exists_subquery(tr, node) ==
    After(<<Called("subcontext", <<tr.context>>)>>,
          Bind(to_sql(filtered(node), subcontext(tr.context), TRUE),
               LAMBDA clause :
                   Return(IF node.node = "NotExistsSubquery" THEN SaNot(clause)
                          ELSE clause, <<>>)))

RECURSIVE context_after(_, _)
\* the scopes of `ctx` after the calls of `log`: a to_sql handed `ctx`
\* itself binds in its own scope, a to_sql handed a child leaves it alone
context_after(ctx, log) ==
    IF log = <<>> THEN ctx
    ELSE IF Head(log).ev = "call" /\ Head(log).fn = "to_sql"
    THEN context_after(IF Len(Head(log).args[2]) = Len(ctx)
                       THEN compiled_under(ctx, Head(log).args[1])
                       ELSE ctx,
                       Tail(log))
    ELSE context_after(ctx, Tail(log))

(***************************************************************************)
(* registry.py: _cast                                                      *)
(***************************************************************************)
is_integer(dtype) == dtype.name \in {"int32", "int64"}
is_timestamp(dtype) == dtype.name = "timestamp"
is_binary(dtype) == dtype.name = "binary"
is_string(dtype) == dtype.name = "string"
is_json(dtype) == dtype.name = "json"

PyStr(text) == [node |-> "str", value |-> text]

\* sa.LargeBinary() and t.get_sqla_type(typ)
LargeBinary == [satype |-> "LargeBinary"]
get_sqla_type(typ) == [satype |-> "of", dtype |-> typ]

\* t.integer_to_timestamp(sa_arg): the dialect's helper
integer_to_timestamp(sa_arg) == [sa |-> "integer_to_timestamp", arg |-> sa_arg]
SaCast(element, type) == [sa |-> "cast", element |-> element, type |-> type]

\* lines 169-184, on the translated argument
cast_rule_json_always(tr, arg_dtype, typ, sa_arg) ==
    IF is_integer(arg_dtype) /\ is_timestamp(typ)
    THEN integer_to_timestamp(sa_arg)
    ELSE IF is_binary(arg_dtype) /\ is_string(typ)
    THEN SaFunc("encode", <<sa_arg, PyStr("escape")>>)
    ELSE IF is_binary(typ) THEN SaCast(sa_arg, LargeBinary)
    ELSE IF is_json(typ) THEN sa_arg
    ELSE SaCast(sa_arg, get_sqla_type(typ))

cast_rule(tr, arg_dtype, typ, sa_arg) ==
    IF is_integer(arg_dtype) /\ is_timestamp(typ)
    THEN integer_to_timestamp(sa_arg)
    ELSE IF is_binary(arg_dtype) /\ is_string(typ)
    THEN SaFunc("encode", <<sa_arg, PyStr("escape")>>)
    ELSE IF is_binary(typ) THEN SaCast(sa_arg, LargeBinary)
    ELSE IF is_json(typ) /\ ~tr.native_json_type THEN sa_arg
    ELSE SaCast(sa_arg, get_sqla_type(typ))

_cast(tr, node) ==
    Bind(alchemy_translate(tr, node.arg), LAMBDA sa_arg :
        Return(cast_rule(tr, node.arg.dtype, node.dtype, sa_arg), <<>>))

(***************************************************************************)
(* registry.py: variance_reduction, the rule of Variance ("var") and of    *)
(* StandardDev ("stddev")                                                  *)
(***************************************************************************)
\* ops.Variance and ops.StandardDev: how is "sample" or "pop"
VarianceNode(kind, arg, how, where) ==
    [node |-> kind, arg |-> arg, how |-> how, where |-> where]

is_boolean(dtype) == dtype.name = "boolean"

\* line 20
suffix == [sample |-> "samp", pop |-> "pop"]

\* lines 23-26
variance_arg(node) ==
    IF is_boolean(node.arg.dtype) THEN Cast(node.arg, int32) ELSE node.arg

\* the predicate left out
variance_unfiltered(node, arg) == arg

\* lines 30-31
variance_filtered(node, arg) ==
    IF node.where # None THEN Where(node.where, arg, NullLiteral) ELSE arg

variance_reduction(func_name, tr, node) ==
    Bind(alchemy_translate(tr, variance_filtered(node, variance_arg(node))),
         LAMBDA arg :
            Return(SaFunc(func_name \o "_" \o suffix[node.how], <<arg>>), <<>>))

(***************************************************************************)
(* AlchemyExprTranslator.translate: a registered rewrite, then the rule    *)
(* the registries of registry.py give the node's kind.                     *)
(***************************************************************************)
AlchemyRule(tr, n) ==
    CASE n.node = "WindowFunction" -> _window_function(tr, n)
      [] n.node = "Alias" -> _alias(tr, n)
      [] n.node = "Literal" -> _literal(tr, n)
      [] n.node = "Cast" -> _cast(tr, n)
      [] n.node = "TableColumn" -> _table_column(tr, n)
      [] n.node = "ExistsSubquery" -> _exists_subquery(tr, n)
      [] n.node = "NotExistsSubquery" -> _exists_subquery(tr, n)
      [] n.node = "NullLiteral" -> Return(SaNull, <<>>)
      [] n.node = "CountStar" -> _count_star(tr, n)
      [] n.node = "Variance" -> variance_reduction("var", tr, n)
      [] n.node = "StandardDev" -> variance_reduction("stddev", tr, n)
      [] n.node = "NTile" -> _ntile(tr, n)
      [] n.node = "SortKey" -> _sort_key(tr, n)
      [] n.node = "RowNumber" -> fixed_arity("row_number", 0, tr, n)
      [] n.node \in Unaries -> unary(SaFuncName[n.node], tr, n)
      [] n.node \in Reductions -> _reduction(SaFuncName[n.node], tr, n)
      [] n.node = "Greater" -> fixed_arity("gt", 2, tr, n)
      [] n.node = "Where" -> fixed_arity("case", 3, tr, n)
      [] n.node = "Column" -> Return(SaColumn(n.name), <<>>)
      [] n.node = "TableArrayView" -> Return(SaSelect(n.table), <<>>)
      [] OTHER -> Raise("OperationNotDefinedError", "No translation rule", <<>>)

alchemy_translate(tr, node) ==
    Logged(node, AlchemyRule(tr, IF HasRewrite(tr, node.node)
                                 THEN Rewrite(tr, node) ELSE node))

\* [t.translate(arg) for arg in nodes]
AlchemyTranslateAll(tr, nodes) ==
    IF nodes = <<>> THEN Return(<<>>, <<>>)
    ELSE Bind(alchemy_translate(tr, Head(nodes)), LAMBDA head :
         Bind(AlchemyTranslateAll(tr, Tail(nodes)), LAMBDA rest :
            Return(<<head>> \o rest, <<>>)))

(***************************************************************************)
(* The translators the model draws.                                        *)
(***************************************************************************)
\* ExprTranslator._require_order_by and ._forbids_frame_clause
RequireOrderBy == {"DenseRank", "MinRank", "NTile", "PercentRank", "CumeDist"}
ForbidsFrameClause == RequireOrderBy \cup {"RowNumber"}
\* ExprTranslator._rewrites entries for the reductions
AnyAllRewrites == {<<"Any", "Max">>, <<"All", "Min">>}

Translator(require_order_by, forbids_frame_clause, rewrites, filter_syntax) ==
    [_require_order_by |-> require_order_by,
     _forbids_frame_clause |-> forbids_frame_clause,
     _rewrites |-> rewrites,
     _has_reduction_filter_syntax |-> filter_syntax]

PlainTranslator == Translator({}, {}, {}, FALSE)

WindowTranslators ==
    {Translator(r, f, w, FALSE) :
        r \in {{}, RequireOrderBy}, f \in {{}, ForbidsFrameClause},
        w \in {{}, AnyAllRewrites}}

\* RowNumber, DenseRank and MinRank are RankBase; whether the other rank
\* functions are is left open
RankBases == {{"RowNumber", "DenseRank", "MinRank"}, RankFamily}

NoCall == [name |-> ""]

(***************************************************************************)
(* SpecArity: fixed_arity and varargs over a node of 0..MaxArgs arguments. *)
(***************************************************************************)
x == Column("x", int64)
\* the arguments: a scalar column, a table (translated to a query) and a
\* node without a translation rule
ArgNodes == {x, TableArrayView("tbl"), Unregistered(int64)}

RECURSIVE SeqsUpTo(_, _)
SeqsUpTo(S, n) ==
    IF n = 0 THEN {<<>>}
    ELSE LET shorter == SeqsUpTo(S, n - 1)
         IN  shorter \cup {Append(q, e) : q \in shorter, e \in S}

InitArity ==
    /\ t = PlainTranslator
    /\ RankBase = RankFamily
    /\ op \in {[node |-> "Call", args |-> a] : a \in SeqsUpTo(ArgNodes, MaxArgs)}
    /\ call = NoCall
    /\ result = NotRun

FixedArity ==
    /\ call = NoCall
    /\ \E arity \in 0..MaxArity :
        /\ call' = [name |-> "fixed_arity", arity |-> arity]
        /\ result' = fixed_arity("fn", arity, t, op)
    /\ UNCHANGED <<t, RankBase, op>>

Varargs ==
    /\ call = NoCall
    /\ call' = [name |-> "varargs"]
    /\ result' = varargs("fn", t, [node |-> "Call", arg |-> op.args])
    /\ UNCHANGED <<t, RankBase, op>>

NextArity == FixedArity \/ Varargs

SpecArity == InitArity /\ [][NextArity]_vars

(***************************************************************************)
(* C1: the rule built by fixed_arity(fn, n) raises the arity error (the    *)
(* IbisError of its own check) if and only if the node's argument count    *)
(* differs from n, and when it does, no argument has been translated and   *)
(* fn has not been called.                                                 *)
(***************************************************************************)
IsArityError(r) == r.exc = "IbisError"

C1_FixedArityErrorIffCountDiffers ==
    call.name = "fixed_arity" =>
        /\ IsArityError(result) <=> Len(op.args) # call.arity
        /\ IsArityError(result) => result.log = <<>>

C1_Witness ==
    /\ call.name = "fixed_arity"
    /\ call.arity = 2
    /\ Len(op.args) = 3
    /\ IsArityError(result)
    /\ result.log = <<>>

(***************************************************************************)
(* SpecBoundary: the rules over one frame boundary.                        *)
(***************************************************************************)
BoundaryDtypes == {int64, float64} \cup {interval(u) : u \in IntervalUnits}

\* a literal, a column expression, or an expression without a translation
\* rule, of each data type a boundary may have
BoundaryValues ==
    {Literal(Num(v), d) : v \in 0..MaxValue, d \in BoundaryDtypes}
        \cup {Column("n", d) : d \in BoundaryDtypes}
        \cup {Unregistered(d) : d \in BoundaryDtypes}

Boundaries ==
    {None} \cup {WindowBoundary(v, p) : v \in BoundaryValues, p \in BOOLEAN}

InitBoundary ==
    /\ t = PlainTranslator
    /\ RankBase = RankFamily
    /\ op \in Boundaries
    /\ call = NoCall
    /\ result = NotRun

IntervalBoundaryToInteger ==
    /\ call = NoCall
    /\ call' = [name |-> "interval_boundary_to_integer"]
    /\ result' = interval_boundary_to_integer(op)
    /\ UNCHANGED <<t, RankBase, op>>

FormatWindowBoundary ==
    /\ call = NoCall
    /\ op # None
    /\ call' = [name |-> "format_window_boundary"]
    /\ result' = format_window_boundary(t, op)
    /\ UNCHANGED <<t, RankBase, op>>

TranslateWindowBoundary ==
    /\ call = NoCall
    /\ call' = [name |-> "_translate_window_boundary"]
    /\ result' = _translate_window_boundary(op)
    /\ UNCHANGED <<t, RankBase, op>>

NextBoundary ==
    IntervalBoundaryToInteger \/ FormatWindowBoundary \/ TranslateWindowBoundary

SpecBoundary == InitBoundary /\ [][NextBoundary]_vars

(***************************************************************************)
(* C4: interval_boundary_to_integer leaves an absent boundary absent and a *)
(* numeric boundary unchanged, and turns a literal interval boundary of    *)
(* value v and unit u in {W, D, h, m, s, ms, us} into the int64 literal    *)
(* boundary of value v * factor(u), direction unchanged; unit D, value 2   *)
(* gives 172800000000.                                                     *)
(***************************************************************************)
\* the factors as the claim states them, in units of 10^6 and of 1
ClaimedFactor(u) ==
    CASE u = "W" -> <<604800, 0>>
      [] u = "D" -> <<86400, 0>>
      [] u = "h" -> <<3600, 0>>
      [] u = "m" -> <<60, 0>>
      [] u = "s" -> <<1, 0>>
      [] u = "ms" -> <<0, 1000>>
      [] u = "us" -> <<0, 1>>

\* v * f by repeated addition
RECURSIVE Scaled(_, _)
Scaled(v, f) ==
    IF v = 0 THEN <<0, 0>>
    ELSE LET rest == Scaled(v - 1, f)
             low == rest[2] + f[2]
         IN  <<rest[1] + f[1] + (low \div Limb), low % Limb>>

IsSupportedIntervalLiteral(b) ==
    /\ b # None
    /\ b.value.node = "Literal"
    /\ b.value.dtype.name = "interval"
    /\ b.value.dtype.unit \in {"W", "D", "h", "m", "s", "ms", "us"}

C4_IntervalBoundaryToInteger ==
    call.name = "interval_boundary_to_integer" =>
        /\ op = None => result.exc = "" /\ result.val = None
        /\ (op # None /\ is_numeric(op.value.dtype)) =>
                result.exc = "" /\ result.val = op
        /\ IsSupportedIntervalLiteral(op) =>
                /\ result.exc = ""
                /\ result.val.value =
                        Literal(Scaled(op.value.value[2],
                                       ClaimedFactor(op.value.dtype.unit)), int64)
                /\ result.val.preceding = op.preceding
        /\ (IsSupportedIntervalLiteral(op) /\ op.value.dtype.unit = "D"
                /\ op.value.value = Num(2)) =>
                Str(result.val.value.value) = "172800000000"

C4_Witness ==
    /\ call.name = "interval_boundary_to_integer"
    /\ IsSupportedIntervalLiteral(op)
    /\ op.value.dtype.unit = "D"
    /\ op.value.value = Num(2)
    /\ op.preceding
    /\ result.exc = ""
    /\ result.val = WindowBoundary(Literal(<<172800, 0>>, int64), TRUE)

(***************************************************************************)
(* C8: format_window_boundary renders a boundary as CURRENT ROW exactly    *)
(* when its value is the literal 0, whatever its direction, and otherwise  *)
(* as the translated value followed by PRECEDING when the boundary is      *)
(* preceding and FOLLOWING when it is not; literal 5 preceding gives       *)
(* "5 PRECEDING".                                                          *)
(***************************************************************************)
IsLiteralZero(b) == b.value.node = "Literal" /\ b.value.value = Num(0)

C8_FormatWindowBoundary ==
    call.name = "format_window_boundary" =>
        /\ (result.exc = "" /\ result.val = "CURRENT ROW") <=> IsLiteralZero(op)
        /\ ~IsLiteralZero(op) =>
            LET value == translate(t, op.value)
            IN  /\ result.log = <<Translated(op.value)>>
                /\ value.exc # "" => result.exc = value.exc
                /\ (value.exc = "" /\ op.preceding) =>
                        result.exc = "" /\ result.val = value.val \o " PRECEDING"
                /\ (value.exc = "" /\ ~op.preceding) =>
                        result.exc = "" /\ result.val = value.val \o " FOLLOWING"
        /\ op = WindowBoundary(Literal(Num(5), int64), TRUE) =>
                result.val = "5 PRECEDING"

C8_Witness ==
    /\ call.name = "format_window_boundary"
    /\ op = WindowBoundary(Literal(Num(5), int64), TRUE)
    /\ result.exc = ""
    /\ result.val = "5 PRECEDING"

C8_WitnessCurrentRow ==
    /\ call.name = "format_window_boundary"
    /\ op = WindowBoundary(Literal(Num(0), int64), FALSE)
    /\ result.val = "CURRENT ROW"

(***************************************************************************)
(* SpecWindow: both window translators over the same windowed function.    *)
(***************************************************************************)
\* the functions: the rank family, the cumulative aggregates, the plain
\* reductions, the reductions window() rejects, and a reduction whose
\* argument has no translation rule
WindowFuncs ==
    {RowNumber, NTile(x, Literal(Num(4), int64))}
        \cup {Func(k, x) : k \in RankFamily \ {"RowNumber", "NTile"}}
        \cup {Func(k, x) : k \in CumulativeOp}
        \cup {Func(k, x) : k \in {"Sum", "Min", "Max", "Mean", "Any", "All"}}
        \cup {Func(k, x) : k \in _unsupported_reductions}
        \cup {Func("Sum", Unregistered(int64))}

MaxLookback == Literal(Num(2), interval("D"))

\* (how, max_lookback): only a row-based frame carries a max-lookback
FrameKinds == {<<"rows", None>>, <<"rows", MaxLookback>>, <<"range", None>>}

Starts == {None, CurrentRow, WindowBoundary(Literal(Num(2), int64), TRUE)}
Ends == {None, CurrentRow, WindowBoundary(Literal(Num(1), int64), FALSE)}
GroupBys == {<<>>, <<Column("g", int64)>>, <<Column("g", int64), Column("h", int64)>>}
OrderBys ==
    {<<>>, <<SortKey(Column("o", int64), TRUE)>>,
     <<SortKey(Column("o", int64), TRUE), SortKey(Column("p", int64), FALSE)>>}

WindowFrames ==
    {WindowFrame(k[1], g, o, s, e, k[2]) :
        k \in FrameKinds, g \in GroupBys, o \in OrderBys, s \in Starts, e \in Ends}

InitWindow ==
    /\ t \in WindowTranslators
    /\ RankBase \in RankBases
    /\ op \in {WindowFunction(f, fr) : f \in WindowFuncs, fr \in WindowFrames}
    /\ call = NoCall
    /\ result = NotRun

Window ==
    /\ call = NoCall
    /\ call' = [name |-> "window"]
    /\ result' = window(t, op)
    /\ op' = [op EXCEPT !.frame = frame_after_window(t, op)]
    /\ UNCHANGED <<t, RankBase>>

AlchemyWindowFunction ==
    /\ call = NoCall
    /\ call' = [name |-> "_window_function"]
    /\ result' = _window_function(t, op)
    /\ UNCHANGED <<t, RankBase, op>>

FormatWindowFrame ==
    /\ call = NoCall
    /\ call' = [name |-> "format_window_frame"]
    /\ result' = format_window_frame(t, op.func, op.frame)
    /\ UNCHANGED <<t, RankBase, op>>

NextWindow == Window \/ AlchemyWindowFunction \/ FormatWindowFrame

SpecWindow == InitWindow /\ [][NextWindow]_vars

(***************************************************************************)
(* C2: a rank function translated inside a window yields the windowed SQL  *)
(* rank call minus one for row-number, dense-rank and min-rank in both     *)
(* window translators.  _window_function also subtracts one for ntile and  *)
(* leaves percent-rank and cumulative-distribution as the windowed call;   *)
(* window subtracts one exactly for the kinds that are RankBase.           *)
(***************************************************************************)
CoreRanks == {"RowNumber", "DenseRank", "MinRank"}

\* the windowed call as window() renders it: the call, then the OVER clause
WindowedText ==
    translate(t, op.func).val \o " "
        \o format_window_frame(t, op.func, with_order_by(t, op.func, op.frame)).val

MinusOneText == "(" \o WindowedText \o " - 1)"

IsWindowedCall(fragment) ==
    /\ fragment.sa = "over"
    /\ fragment.element = alchemy_translate(t, op.func).val

IsMinusOne(fragment) ==
    /\ fragment.sa = "binary"
    /\ fragment.operator = "-"
    /\ fragment.right = PyInt(Num(1))
    /\ IsWindowedCall(fragment.left)

C2_RankMinusOne ==
    (op.func.node \in RankFamily /\ result.exc = "") =>
        /\ call.name = "window" =>
            /\ op.func.node \in CoreRanks => result.val = MinusOneText
            /\ result.val = IF op.func.node \in RankBase
                            THEN MinusOneText ELSE WindowedText
        /\ call.name = "_window_function" =>
            IF op.func.node \in CoreRanks \cup {"NTile"}
            THEN IsMinusOne(result.val)
            ELSE IsWindowedCall(result.val)

C2_Witness ==
    /\ call.name = "window"
    /\ op.func = RowNumber
    /\ op.frame = WindowFrame("rows", <<>>, <<SortKey(Column("o", int64), TRUE)>>,
                              None, None, None)
    /\ result.exc = ""
    /\ result.val = "(row_number() OVER (ORDER BY o) - 1)"

\* the claim as stated: all six kinds, both translators
C2_AllSixMinusOne ==
    (op.func.node \in RankFamily /\ result.exc = "") =>
        /\ call.name = "window" => result.val = MinusOneText
        /\ call.name = "_window_function" => IsMinusOne(result.val)

(***************************************************************************)
(* C3: translating a cumulative aggregate over a frame F gives the same    *)
(* result as translating the corresponding plain reduction, same argument, *)
(* windowed over F with start absent and end the current row; F's group-by *)
(* keys, order-by keys and kind are kept.                                  *)
(***************************************************************************)
PlainReductionWindow ==
    WindowFunction(Func(_cumulative_to_reduction[op.func.node], op.func.arg),
                   WindowFrame(op.frame.how, op.frame.group_by, op.frame.order_by,
                               None, CurrentRow, op.frame.max_lookback))

SameOutcome(a, b) == a.exc = b.exc /\ (a.exc = "" => a.val = b.val)

C3_CumulativeDesugars ==
    op.func.node \in CumulativeOp =>
        /\ call.name = "window" =>
                SameOutcome(result, window(t, PlainReductionWindow))
        /\ call.name = "_window_function" =>
                SameOutcome(result, _window_function(t, PlainReductionWindow))

C3_Witness ==
    /\ call.name = "window"
    /\ op.func = Func("CumulativeSum", x)
    /\ op.frame = WindowFrame("rows", <<>>, <<SortKey(Column("o", int64), TRUE)>>,
                              WindowBoundary(Literal(Num(2), int64), TRUE),
                              WindowBoundary(Literal(Num(1), int64), FALSE), None)
    /\ result.exc = ""
    /\ result.val =
        "sum(x) OVER (ORDER BY o ROWS BETWEEN UNBOUNDED PRECEDING AND CURRENT ROW)"

(***************************************************************************)
(* C6: a window whose function is an approximate-median, group-concat or   *)
(* approximate-distinct-count reduction is rejected by window() with       *)
(* UnsupportedOperationError before anything is translated.                *)
(* _window_function has no such rejection: it translates the function      *)
(* first, fails for approximate-median only because no rule is registered  *)
(* for it, and returns the windowed call for the other two.                *)
(***************************************************************************)
HasLookback == op.frame.how = "rows" /\ op.frame.max_lookback # None

C6_UnsupportedReductions ==
    op.func.node \in {"ApproxMedian", "GroupConcat", "ApproxCountDistinct"} =>
        /\ call.name = "window" =>
            /\ result.exc = "UnsupportedOperationError"
            /\ result.log = <<>>
        /\ call.name = "_window_function" =>
            /\ result.log # <<>>
            /\ result.log[1] = Translated(op.func)
            /\ result.exc =
                IF op.func.node = "ApproxMedian" THEN "OperationNotDefinedError"
                ELSE IF HasLookback THEN "NotImplementedError"
                ELSE ""
            /\ result.exc = "" => IsWindowedCall(result.val)

C6_Witness ==
    /\ call.name = "_window_function"
    /\ op.func = Func("GroupConcat", x)
    /\ op.frame = WindowFrame("rows", <<>>, <<>>, None, None, None)
    /\ result.exc = ""
    /\ result.val = SaOver(SaFunc("group_concat", <<SaColumn("x")>>), <<>>, <<>>,
                           "rows", <<None, None>>)

\* the claim as stated: both translators reject, before any translation
C6_BothReject ==
    (op.func.node \in {"ApproxMedian", "GroupConcat", "ApproxCountDistinct"}
        /\ call.name \in {"window", "_window_function"}) =>
        /\ result.exc = "UnsupportedOperationError"
        /\ result.log = <<>>

(***************************************************************************)
(* C7: translating a window function over a row-based frame that carries a *)
(* max-lookback never returns a fragment, cumulative aggregates included.  *)
(* The failure is NotImplementedError unless an earlier step fails first:  *)
(* in window() the rejection of an unsupported reduction, in               *)
(* _window_function the translation of the function.                       *)
(***************************************************************************)
\* the function _window_function translates: a cumulative aggregate's
\* plain reduction, any other function itself
TranslatedFunc ==
    IF op.func.node \in CumulativeOp
    THEN Func(_cumulative_to_reduction[op.func.node], op.func.arg)
    ELSE op.func

C7_MaxLookbackFails ==
    (HasLookback /\ call.name \in {"window", "_window_function"}) =>
        /\ result.exc # ""
        /\ call.name = "window" =>
            result.exc = IF op.func.node \in _unsupported_reductions
                         THEN "UnsupportedOperationError"
                         ELSE "NotImplementedError"
        /\ call.name = "_window_function" =>
            LET func == alchemy_translate(t, TranslatedFunc)
            IN  result.exc = IF func.exc = "" THEN "NotImplementedError" ELSE func.exc

C7_Witness ==
    /\ call.name = "window"
    /\ HasLookback
    /\ op.func = Func("CumulativeSum", x)
    /\ result.exc = "NotImplementedError"

\* the claim as stated: a not-implemented error for every function kind
C7_AlwaysNotImplemented ==
    (HasLookback /\ call.name \in {"window", "_window_function"}) =>
        result.exc = "NotImplementedError"

(***************************************************************************)
(* C9: for a function that is not frame-clause-incompatible,               *)
(* format_window_frame renders, when a boundary is present, the clause     *)
(* ROWS|RANGE BETWEEN <start> AND <end> with an absent start as UNBOUNDED  *)
(* PRECEDING and an absent end as UNBOUNDED FOLLOWING; when both           *)
(* boundaries are absent it emits no frame clause.                         *)
(***************************************************************************)
\* OVER (...) with the partition and order keys of the frame and the given
\* frame clauses
OverText(frame, clauses) ==
    "OVER ("
        \o Join((IF frame.group_by # <<>>
                 THEN <<"PARTITION BY " \o Join(TranslateAll(t, frame.group_by).val, ", ")>>
                 ELSE <<>>)
                \o (IF frame.order_by # <<>>
                    THEN <<"ORDER BY " \o Join(TranslateAll(t, frame.order_by).val, ", ")>>
                    ELSE <<>>)
                \o clauses, " ")
        \o ")"

\* the clause the claim describes
BetweenClause(frame) ==
    (IF frame.how = "rows" THEN "ROWS" ELSE "RANGE") \o " BETWEEN "
        \o (IF frame.start = None THEN "UNBOUNDED PRECEDING"
            ELSE format_window_boundary(t, frame.start).val)
        \o " AND "
        \o (IF frame.end = None THEN "UNBOUNDED FOLLOWING"
            ELSE format_window_boundary(t, frame.end).val)

C9_AbsentBoundaries ==
    (call.name = "format_window_frame"
        /\ op.func.node \notin t._forbids_frame_clause) =>
        /\ result.exc = ""
        /\ result.val =
            IF op.frame.start = None /\ op.frame.end = None
            THEN OverText(op.frame, <<>>)
            ELSE OverText(op.frame, <<BetweenClause(op.frame)>>)

C9_Witness ==
    /\ call.name = "format_window_frame"
    /\ op.func = Func("Sum", x)
    /\ op.frame = WindowFrame("rows", <<Column("g", int64)>>, <<>>, None,
                              WindowBoundary(Literal(Num(1), int64), FALSE), None)
    /\ result.val =
        "OVER (PARTITION BY g ROWS BETWEEN UNBOUNDED PRECEDING AND 1 FOLLOWING)"

C9_WitnessBothAbsent ==
    /\ call.name = "format_window_frame"
    /\ op.func = Func("Sum", x)
    /\ op.frame = WindowFrame("rows", <<Column("g", int64)>>, <<>>, None, None, None)
    /\ result.val = "OVER (PARTITION BY g)"

\* the claim as stated: the clause is emitted for every frame
C9_ClauseForEveryFrame ==
    (call.name = "format_window_frame"
        /\ op.func.node \notin t._forbids_frame_clause) =>
        result.val = OverText(op.frame, <<BetweenClause(op.frame)>>)

(***************************************************************************)
(* SpecRange: the window translators over frames whose boundaries are      *)
(* intervals of every unit, and time_range_to_range_window on its own.     *)
(***************************************************************************)
ts == Column("ts", timestamp)
o == Column("o", int64)

\* a plain reduction, a rank function over a temporal column, a cumulative
\* aggregate and a reduction window() rejects
RangeFuncs ==
    {Func("Sum", x), Func("MinRank", ts), Func("CumulativeSum", x),
     Func("GroupConcat", x)}

\* the units an interval expression boundary is drawn with
ExprUnits == {"M", "D", "ns"}

RangeValues ==
    {Literal(Num(2), int64)}
        \cup {Literal(Num(2), interval(u)) : u \in IntervalUnits}
        \cup {Column("n", interval(u)) : u \in ExprUnits}

RangeStarts == {None} \cup {WindowBoundary(v, TRUE) : v \in RangeValues}
RangeEnds == {None} \cup {WindowBoundary(v, FALSE) : v \in RangeValues}

RangeOrderBys ==
    {<<>>, <<SortKey(ts, TRUE)>>, <<SortKey(o, TRUE)>>,
     <<SortKey(ts, FALSE), SortKey(o, TRUE)>>}

RangeFrames ==
    {WindowFrame(how, <<>>, order_by, start, end, None) :
        how \in {"rows", "range"}, order_by \in RangeOrderBys,
        start \in RangeStarts, end \in RangeEnds}

InitRange ==
    /\ t \in {Translator(r, {}, {}, FALSE) : r \in {{}, RequireOrderBy}}
    /\ RankBase = CoreRanks
    /\ op \in {WindowFunction(f, fr) : f \in RangeFuncs, fr \in RangeFrames}
    /\ call = NoCall
    /\ result = NotRun

\* the function indexes order_by[0]: it is called with an order key
TimeRangeToRangeWindow ==
    /\ call = NoCall
    /\ op.frame.order_by # <<>>
    /\ call' = [name |-> "time_range_to_range_window"]
    /\ result' = time_range_to_range_window(op.frame)
    /\ UNCHANGED <<t, RankBase, op>>

NextRange == Window \/ AlchemyWindowFunction \/ TimeRangeToRangeWindow

SpecRange == InitRange /\ [][NextRange]_vars

(***************************************************************************)
(* C5: normalizing a range frame over one temporal order key fails with    *)
(* the unsupported-unit error (IbisInputError, "Unsupported interval       *)
(* unit") when its start or end is an interval of unit M, Q, Y or ns,      *)
(* literal or expression; window() then has translated nothing and returns *)
(* no text.                                                                *)
(***************************************************************************)
HasNoFactor(boundary) ==
    /\ boundary # None
    /\ boundary.value.dtype.name = "interval"
    /\ boundary.value.dtype.unit \in {"M", "Q", "Y", "ns"}

\* the unit of the first boundary without a factor, start before end
OffendingUnit(frame) ==
    IF HasNoFactor(frame.start) THEN frame.start.value.dtype.unit
    ELSE frame.end.value.dtype.unit

IsUnsupportedUnit(r, unit) ==
    /\ r.exc = "IbisInputError"
    /\ r.msg = "Unsupported interval unit: " \o unit

\* the frame window() normalizes: the order key may be the function's argument
OrderedFrame ==
    IF op.func.node \in t._require_order_by /\ op.frame.order_by = <<>>
    THEN [op.frame EXCEPT !.order_by = <<SortKey(op.func.arg, TRUE)>>]
    ELSE op.frame

IsTimeRange(frame) ==
    /\ frame.how = "range"
    /\ Len(frame.order_by) = 1
    /\ is_temporal(frame.order_by[1].dtype)

C5_UnsupportedUnit ==
    /\ (call.name = "time_range_to_range_window"
            /\ IsTimeRange(op.frame)
            /\ (HasNoFactor(op.frame.start) \/ HasNoFactor(op.frame.end))) =>
            IsUnsupportedUnit(result, OffendingUnit(op.frame))
    /\ (call.name = "window"
            /\ op.func.node \notin _unsupported_reductions \cup CumulativeOp
            /\ IsTimeRange(OrderedFrame)
            /\ (HasNoFactor(op.frame.start) \/ HasNoFactor(op.frame.end))) =>
            /\ IsUnsupportedUnit(result, OffendingUnit(op.frame))
            /\ result.log = <<>>

C5_Witness ==
    /\ call.name = "window"
    /\ op.func = Func("Sum", x)
    /\ op.frame = WindowFrame("range", <<>>, <<SortKey(ts, TRUE)>>,
                              WindowBoundary(Literal(Num(2), interval("D")), TRUE),
                              WindowBoundary(Column("n", interval("M")), FALSE), None)
    /\ result.exc = "IbisInputError"
    /\ result.msg = "Unsupported interval unit: M"
    /\ result.log = <<>>

(***************************************************************************)
(* SpecReduction: the SQLAlchemy rules of the reductions, on a dialect     *)
(* with or without the aggregate FILTER clause.                            *)
(***************************************************************************)
\* the filter predicates: none, a comparison, a boolean column, and a
\* predicate without a translation rule
Predicates ==
    {None, Column("b", boolean), Unregistered(boolean)}
        \cup {Greater(c, Literal(Num(v), int64)) : c \in {x, o}, v \in 0..MaxValue}

InitReduction ==
    /\ t \in {Translator({}, {}, w, f) : w \in {{}, AnyAllRewrites}, f \in BOOLEAN}
    /\ RankBase = CoreRanks
    /\ op \in {CountStar(p) : p \in Predicates}
    /\ call = NoCall
    /\ result = NotRun

CountStarRule ==
    /\ call = NoCall
    /\ call' = [name |-> "_count_star"]
    /\ result' = _count_star(t, op)
    /\ UNCHANGED <<t, RankBase, op>>

AlchemyTranslate ==
    /\ call = NoCall
    /\ call' = [name |-> "translate"]
    /\ result' = alchemy_translate(t, op)
    /\ UNCHANGED <<t, RankBase, op>>

NextReduction == CountStarRule \/ AlchemyTranslate

SpecReduction == InitReduction /\ [][NextReduction]_vars

(***************************************************************************)
(* C10: CountStar translates to the star count, no FILTER and no CASE,     *)
(* when it has no predicate; with a predicate p, to the star count with    *)
(* FILTER (WHERE p) on a dialect with the aggregate FILTER clause and to   *)
(* the count of CASE WHEN p THEN 1 ELSE NULL END on a dialect without; the *)
(* dialect flag alone selects between the last two.                        *)
(***************************************************************************)
CountAll == SaFunc("count", <<>>)

C10_CountStar ==
    call.name = "_count_star" =>
        IF op.where = None
        THEN result = Return(CountAll, <<>>)
        ELSE LET p == alchemy_translate(t, op.where)
             IN  /\ result.exc = p.exc
                 /\ (p.exc = "" /\ t._has_reduction_filter_syntax) =>
                        result.val = SaFilter(CountAll, p.val)
                 /\ (p.exc = "" /\ ~t._has_reduction_filter_syntax) =>
                        result.val =
                            SaFunc("count",
                                   <<SaCase(p.val, SaLiteral(Num(1)), SaNull)>>)

C10_Witness ==
    /\ call.name = "_count_star"
    /\ op = CountStar(Greater(x, Literal(Num(0), int64)))
    /\ ~t._has_reduction_filter_syntax
    /\ result.exc = ""
    /\ result.val =
        SaFunc("count",
               <<SaCase(SaFunc("gt", <<SaColumn("x"), SaLiteral(Num(0))>>),
                        SaLiteral(Num(1)), SaNull)>>)

C10_WitnessFilter ==
    /\ call.name = "_count_star"
    /\ op = CountStar(Greater(x, Literal(Num(0), int64)))
    /\ t._has_reduction_filter_syntax
    /\ result.val =
        SaFilter(CountAll, SaFunc("gt", <<SaColumn("x"), SaLiteral(Num(0))>>))

(***************************************************************************)
(* SpecCast: the SQLAlchemy rule of Cast over every pair of data types, on *)
(* a dialect with or without a native JSON type.                           *)
(***************************************************************************)
binary == [name |-> "binary", unit |-> ""]
string == [name |-> "string", unit |-> ""]
json == [name |-> "json", unit |-> ""]

CastDtypes == {int32, int64, float64, timestamp, binary, string, json, boolean}

\* a column, a node without a translation rule, and the literal 1000
CastArgs ==
    {Column("c", d) : d \in CastDtypes}
        \cup {Unregistered(d) : d \in CastDtypes}
        \cup {Literal(Num(1000), int64)}

InitCast ==
    /\ t \in {PlainTranslator @@ [native_json_type |-> j] : j \in BOOLEAN}
    /\ RankBase = CoreRanks
    /\ op \in {Cast(a, to) : a \in CastArgs, to \in CastDtypes}
    /\ call = NoCall
    /\ result = NotRun

CastRule ==
    /\ call = NoCall
    /\ call' = [name |-> "_cast"]
    /\ result' = _cast(t, op)
    /\ UNCHANGED <<t, RankBase, op>>

NextCast == CastRule \/ AlchemyTranslate

SpecCast == InitCast /\ [][NextCast]_vars

(***************************************************************************)
(* C11: _cast translates its argument exactly once and applies the first   *)
(* rule that matches, in this order: integer to timestamp, the dialect's   *)
(* integer-to-timestamp helper; binary to string, encode(arg, 'escape');   *)
(* any source to binary, the explicit binary cast; target JSON on a        *)
(* dialect without a native JSON type, the translated argument unchanged;  *)
(* every other case, the generic cast to the target type.                  *)
(***************************************************************************)
IntegerNames == {"int32", "int64"}

\* the number of the first rule of the claim that matches, 1..5
FirstCastRule(source, target, native_json) ==
    IF source.name \in IntegerNames /\ target.name = "timestamp" THEN 1
    ELSE IF source.name = "binary" /\ target.name = "string" THEN 2
    ELSE IF target.name = "binary" THEN 3
    ELSE IF target.name = "json" /\ ~native_json THEN 4
    ELSE 5

C11_CastRules ==
    call.name = "_cast" =>
        LET sa_arg == alchemy_translate(t, op.arg)
            rule == FirstCastRule(op.arg.dtype, op.dtype, t.native_json_type)
        IN  /\ result.log = <<Translated(op.arg)>>
            /\ result.exc = sa_arg.exc
            /\ sa_arg.exc = "" =>
                /\ rule = 1 => result.val = [sa |-> "integer_to_timestamp",
                                             arg |-> sa_arg.val]
                /\ rule = 2 => result.val =
                                SaFunc("encode", <<sa_arg.val, PyStr("escape")>>)
                /\ rule = 3 => result.val = SaCast(sa_arg.val, LargeBinary)
                /\ rule = 4 => result.val = sa_arg.val
                /\ rule = 5 => result.val =
                                SaCast(sa_arg.val, get_sqla_type(op.dtype))

C11_Witness ==
    /\ call.name = "_cast"
    /\ op = Cast(Literal(Num(1000), int64), timestamp)
    /\ result.exc = ""
    /\ result.val = [sa |-> "integer_to_timestamp", arg |-> SaLiteral(Num(1000))]
    /\ result.log = <<Translated(Literal(Num(1000), int64))>>

C11_WitnessJson ==
    /\ call.name = "_cast"
    /\ op = Cast(Column("c", string), json)
    /\ ~t.native_json_type
    /\ result.val = SaColumn("c")

(***************************************************************************)
(* SpecContext: column references resolved against a chain of 1..MaxDepth  *)
(* scopes.  The translator carries the context and `quote`, the quote      *)
(* attribute of the column object the reference resolves to.               *)
(***************************************************************************)
MaxDepth == 3

TableNames == {"A", "B"}

\* the scopes of a chain at `level`: each table bound to that level's
\* reference or not bound
Scopes(level, is_select, prefixed) ==
    {[name \in TableNames |->
        IF name \in bound
        THEN Relation("alias", name, level, is_select, prefixed) ELSE None] :
     bound \in SUBSET TableNames}

Chains(is_select, prefixed) ==
    UNION {{c \in [1..depth -> UNION {Scopes(l, is_select, prefixed) : l \in 1..depth}] :
                \A l \in 1..depth : c[l] \in Scopes(l, is_select, prefixed)} :
           depth \in 1..MaxDepth}

ContextTranslators ==
    {PlainTranslator @@ [permit_subquery |-> permit,
                         _always_quote_columns |-> always,
                         context |-> ctx,
                         quote |-> quote] :
        permit \in BOOLEAN, always \in BOOLEAN, quote \in BOOLEAN,
        ctx \in UNION {Chains(is_select, prefixed) :
                            is_select \in BOOLEAN, prefixed \in BOOLEAN}}

InitContext ==
    /\ t \in ContextTranslators
    /\ RankBase = CoreRanks
    /\ op \in {TableColumn(Table("A", is_alchemy), "a") : is_alchemy \in BOOLEAN}
    /\ call = NoCall
    /\ result = NotRun

GetSqlaTable ==
    /\ call = NoCall
    /\ call' = [name |-> "get_sqla_table"]
    /\ result' = get_sqla_table(t.context, op.table)
    /\ UNCHANGED <<t, RankBase, op>>

\* the first translation of the column reference in the compile
TableColumnRule ==
    /\ call = NoCall
    /\ result' = _table_column(t, op)
    /\ call' = [name |-> "_table_column", n |-> 1, first |-> result']
    /\ t' = [t EXCEPT !.quote = quote_assigned(t)]
    /\ UNCHANGED <<RankBase, op>>

\* the second translation of the same node, bindings and flags unchanged
TableColumnAgain ==
    /\ call.name = "_table_column"
    /\ call.n = 1
    /\ result' = _table_column(t, op)
    /\ call' = [call EXCEPT !.n = 2]
    /\ t' = [t EXCEPT !.quote = quote_assigned(t)]
    /\ UNCHANGED <<RankBase, op>>

NextContext == GetSqlaTable \/ TableColumnRule \/ TableColumnAgain

SpecContext == InitContext /\ [][NextContext]_vars

(***************************************************************************)
(* C12: translating a column reference returns a single-column subquery    *)
(* selecting that column from its table if and only if subqueries are      *)
(* permitted and the column's table is not bound in the current scope's    *)
(* own bindings; in every other case it returns the plain column of the    *)
(* resolved table.                                                         *)
(***************************************************************************)
BoundAt(level) == t.context[level][op.table.name] # None

BoundSomewhere == \E level \in DOMAIN t.context : BoundAt(level)

\* the innermost scope that binds the table
Innermost ==
    CHOOSE level \in DOMAIN t.context :
        BoundAt(level) /\ \A nearer \in 1..(level - 1) : ~BoundAt(nearer)

\* the relation the column's table resolves to
Resolved ==
    IF BoundSomewhere THEN t.context[Innermost][op.table.name]
    ELSE IF op.table.is_alchemy
    THEN Relation("table", op.table.name, 0, FALSE, FALSE)
    ELSE Relation("compiled", op.table.name, 0, TRUE, FALSE)

IsColumnOf(fragment, relation) ==
    /\ fragment.sa = "column"
    /\ fragment.table = relation
    /\ fragment.name \in {op.name, relation.of \o "_" \o op.name}

IsSubqueryOn(fragment, relation) ==
    /\ fragment.sa = "select"
    /\ fragment.table \in {relation, Subquery(relation)}
    /\ fragment.column \in {op.name, relation.of \o "_" \o op.name}

C12_TableColumn ==
    call.name = "_table_column" =>
        /\ result.exc = ""
        /\ IsSubqueryOn(result.val, Resolved) <=> (t.permit_subquery /\ ~BoundAt(1))
        /\ ~(t.permit_subquery /\ ~BoundAt(1)) => IsColumnOf(result.val, Resolved)

C12_Witness ==
    /\ call.name = "_table_column"
    /\ t.permit_subquery
    /\ Len(t.context) = 2
    /\ ~BoundAt(1)
    /\ BoundAt(2)
    /\ result.val = SaSelectColumn(t.context[2]["A"], "a")

C12_WitnessPlain ==
    /\ call.name = "_table_column"
    /\ t.permit_subquery
    /\ BoundAt(1)
    /\ result.val = SaTableColumn(t.context[1]["A"], "a", TRUE)

(***************************************************************************)
(* C13: for a table bound in at least one scope of the chain from the      *)
(* current context to the root, get_sqla_table returns the binding of the  *)
(* innermost such scope: it inspects the current scope first and moves to  *)
(* the parent only while the scope just inspected has no binding.          *)
(***************************************************************************)
C13_InnermostBinding ==
    (call.name = "get_sqla_table" /\ BoundSomewhere) =>
        /\ result.exc = ""
        /\ result.val = t.context[Innermost][op.table.name]
        /\ result.val.level = Innermost
        /\ result.log = [level \in 1..Innermost |-> GotRef(level)]

C13_Witness ==
    /\ call.name = "get_sqla_table"
    /\ Len(t.context) = 3
    /\ ~BoundAt(1)
    /\ BoundAt(2)
    /\ BoundAt(3)
    /\ result.val.level = 2
    /\ result.log = <<GotRef(1), GotRef(2)>>

RunsArguments ==
    \/ call.name = "varargs"
    \/ call.name = "fixed_arity" /\ call.arity = Len(op.args)

Fails(node) == alchemy_translate(t, node).exc # ""

\* the fragment of the argument at position i, converted or not
IsArgument(fragment, i) ==
    \E translated \in {alchemy_translate(t, op.args[i]).val} :
        fragment \in {translated, scalar_subquery(translated)}

C17_ArgumentOrder ==
    (RunsArguments /\ \A i \in DOMAIN op.args : ~Fails(op.args[i])) =>
        /\ result.exc = ""
        /\ Len(result.log) = Len(op.args) + 1
        /\ \A i \in DOMAIN op.args : result.log[i] = Translated(op.args[i])
        /\ \E fn_call \in {result.log[Len(op.args) + 1]} :
            /\ fn_call.ev = "call"
            /\ fn_call.fn = "fn"
            /\ Len(fn_call.args) = Len(op.args)
            /\ \A i \in DOMAIN op.args : IsArgument(fn_call.args[i], i)
            /\ result.val = SaFunc("fn", fn_call.args)

C17_Witness ==
    /\ call.name = "fixed_arity"
    /\ op.args = <<x, TableArrayView("tbl"), x>>
    /\ result.exc = ""
    /\ Len(result.log) = 4
    /\ result.log[2] = Translated(TableArrayView("tbl"))
    /\ result.log[4].ev = "call"
    /\ result.log[4].args[1] = result.log[4].args[3]
    /\ result.log[4].args[2].sa = "scalar_subquery"

(***************************************************************************)
(* C18: in every fixed_arity and varargs rule, a translated argument that  *)
(* is a query result (it offers a scalar-subquery conversion) reaches fn   *)
(* in its scalar-subquery form and a translated argument that is a scalar  *)
(* reaches fn unchanged.                                                   *)
(***************************************************************************)
IsQuery(fragment) == fragment.sa = "select"

C18_ScalarSubqueryCoercion ==
    (RunsArguments /\ result.exc = "") =>
        \A i \in DOMAIN op.args :
            \E translated \in {alchemy_translate(t, op.args[i]).val} :
                result.log[Len(result.log)].args[i] =
                    IF IsQuery(translated)
                    THEN [sa |-> "scalar_subquery", element |-> translated]
                    ELSE translated

C18_Witness ==
    /\ call.name = "varargs"
    /\ op.args = <<TableArrayView("tbl"), x>>
    /\ result.exc = ""
    /\ result.val.args[1].sa = "scalar_subquery"
    /\ IsQuery(result.val.args[1].element)
    /\ result.val.args[2] = alchemy_translate(t, x).val

(***************************************************************************)
(* SpecPropagation: the rules that translate children, over nodes whose    *)
(* children may have no translation rule: an argument of a call, the       *)
(* argument of a cast, and the function argument, a partition key, an      *)
(* order key or a boundary of a windowed function.                         *)
(***************************************************************************)
failing == Unregistered(int64)

PropagationFuncs ==
    {Func("Sum", x), Func("Sum", failing), Func("MinRank", failing),
     Func("CumulativeSum", failing), NTile(x, failing)}

PropagationFrames ==
    {WindowFrame(how, group_by, order_by, start, end, None) :
        how \in {"rows", "range"},
        group_by \in {<<>>, <<Column("g", int64)>>, <<failing>>,
                      <<Column("g", int64), failing>>},
        order_by \in {<<>>, <<SortKey(Column("o", int64), TRUE)>>,
                      <<SortKey(failing, TRUE)>>},
        start \in {None, WindowBoundary(Column("n", int64), TRUE),
                   WindowBoundary(failing, TRUE)},
        end \in {None, CurrentRow}}

InitPropagation ==
    /\ t \in {Translator(r, {}, {}, FALSE) @@ [native_json_type |-> TRUE] :
                r \in {{}, RequireOrderBy}}
    /\ RankBase = CoreRanks
    /\ op \in {[node |-> "Call", args |-> a] : a \in SeqsUpTo(ArgNodes, MaxArgs)}
            \cup {Cast(a, int64) : a \in {Column("c", string), Unregistered(string)}}
            \cup {WindowFunction(f, fr) : f \in PropagationFuncs, fr \in PropagationFrames}
    /\ call = NoCall
    /\ result = NotRun

NextPropagation ==
    \/ op.node = "Call" /\ FixedArity
    \/ op.node = "Call" /\ Varargs
    \/ op.node = "Cast" /\ CastRule
    \/ op.node = "WindowFunction" /\ Window
    \/ op.node = "WindowFunction" /\ AlchemyWindowFunction
    \/ op.node = "WindowFunction" /\ FormatWindowFrame

SpecPropagation == InitPropagation /\ [][NextPropagation]_vars

(***************************************************************************)
(* C14: if translating a child of a node fails, the rule translating the   *)
(* node fails with that same error, at once: the failed translation is the *)
(* last thing the rule did, the rule's outcome carries the child's error   *)
(* and message, and it returns no fragment.                                *)
(***************************************************************************)
\* the rules of the string translator
StringRules == {"window", "format_window_frame"}

\* the outcome of translating a child with the translator the rule ran in
ChildOutcome(node) ==
    IF call.name \in StringRules THEN translate(t, node) ELSE alchemy_translate(t, node)

C14_ChildErrorPropagates ==
    \A i \in DOMAIN result.log :
        result.log[i].ev = "translate" =>
            \E child \in {ChildOutcome(result.log[i].node)} :
                child.exc # "" =>
                    /\ i = Len(result.log)
                    /\ result.exc = child.exc
                    /\ result.msg = child.msg
                    /\ "val" \notin DOMAIN result

\* window() fails on the second partition key, after the first
C14_Witness ==
    /\ call.name = "window"
    /\ op.func = Func("Sum", x)
    /\ op.frame.group_by = <<Column("g", int64), failing>>
    /\ result.log = <<Translated(Column("g", int64)), Translated(failing)>>
    /\ result.exc = "OperationNotDefinedError"
    /\ result.exc = translate(t, failing).exc

\* _varargs_call fails on the second argument, before fn is called
C14_WitnessVarargs ==
    /\ call.name = "varargs"
    /\ op.args = <<TableArrayView("tbl"), failing, x>>
    /\ result.log = <<Translated(TableArrayView("tbl")), Translated(failing)>>
    /\ result.exc = "OperationNotDefinedError"

(***************************************************************************)
(* C15: window() never changes its input: when it has returned or failed,  *)
(* the window node it was given has the same function and frame, and the   *)
(* frame the same order-by keys, start boundary and end boundary, as       *)
(* before the call.                                                        *)
(***************************************************************************)
C15_InputUnchanged ==
    [][call'.name = "window" =>
            /\ op'.func = op.func
            /\ op'.frame.order_by = op.frame.order_by
            /\ op'.frame.start = op.frame.start
            /\ op'.frame.end = op.frame.end
            /\ op' = op]_vars

\* the frame was converted for the text; the node still has the temporal
\* key and the interval boundary
C15_Witness ==
    /\ call.name = "window"
    /\ result.exc = ""
    /\ result.val = "sum(x) OVER (ORDER BY CAST(ts AS bigint) "
                        \o "RANGE BETWEEN 172800000000 PRECEDING AND UNBOUNDED FOLLOWING)"
    /\ op.func = Func("Sum", x)
    /\ op.frame.order_by = <<SortKey(ts, TRUE)>>
    /\ op.frame.start = WindowBoundary(Literal(Num(2), interval("D")), TRUE)
    /\ op.frame.end = None

\* the ORDER BY was synthesized and converted, then the end boundary failed
C15_WitnessFailed ==
    /\ call.name = "window"
    /\ result.exc = "IbisInputError"
    /\ op.func = Func("MinRank", ts)
    /\ op.frame.how = "range"
    /\ op.frame.order_by = <<>>
    /\ op.frame.start = WindowBoundary(Literal(Num(2), interval("D")), TRUE)
    /\ op.frame.end = WindowBoundary(Literal(Num(2), interval("ns")), FALSE)

\* a cumulative function over a temporal key
C15_WitnessCumulative ==
    /\ call.name = "window"
    /\ result.exc = ""
    /\ op.func = Func("CumulativeSum", x)
    /\ op.frame.how = "range"
    /\ op.frame.order_by = <<SortKey(ts, TRUE)>>
    /\ op.frame.start = WindowBoundary(Literal(Num(2), interval("D")), TRUE)

(***************************************************************************)
(* C19: in both window translators the ORDER BY of the emitted window is   *)
(* the function's own argument exactly when the function's kind is in the  *)
(* translator's requires-ORDER-BY set and the frame has no order-by keys;  *)
(* when the frame has at least one order-by key the ORDER BY is the        *)
(* frame's keys in their original order, for every function kind; a frame  *)
(* without keys under any other function has no ORDER BY.                  *)
(***************************************************************************)
OrderByIsArgument == op.func.node \in t._require_order_by /\ op.frame.order_by = <<>>

\* the ORDER BY the claim describes, as texts and as fragments
OrderByTexts ==
    IF OrderByIsArgument THEN <<translate(t, op.func.arg).val>>
    ELSE TranslateAll(t, op.frame.order_by).val

OrderByFragments ==
    IF OrderByIsArgument THEN <<alchemy_translate(t, op.func.arg).val>>
    ELSE AlchemyTranslateAll(t, op.frame.order_by).val

\* the window whose text is emitted: a cumulative aggregate's is the plain
\* reduction's
Emitted == IF op.func.node \in CumulativeOp THEN PlainReductionWindow ELSE op

\* the text of window() with the given ORDER BY
TextOrderedBy(texts) ==
    zero_based(Emitted.func,
        translate(t, Emitted.func).val \o " OVER ("
            \o Join((IF op.frame.group_by # <<>>
                     THEN <<"PARTITION BY "
                                \o Join(TranslateAll(t, op.frame.group_by).val, ", ")>>
                     ELSE <<>>)
                    \o (IF texts # <<>> THEN <<"ORDER BY " \o Join(texts, ", ")>> ELSE <<>>)
                    \o frame_clause(t, Emitted.func, Emitted.frame).val, " ")
            \o ")")

\* the OVER fragment of what _window_function returned
OverOf(fragment) == IF fragment.sa = "binary" THEN fragment.left ELSE fragment

C19_WitnessKeys ==
    /\ call.name = "_window_function"
    /\ t._require_order_by = RequireOrderBy
    /\ op.func = Func("PercentRank", x)
    /\ Len(op.frame.order_by) = 2
    /\ result.exc = ""
    /\ result.val.order_by = <<SaFunc("asc", <<SaColumn("o")>>),
                               SaFunc("desc", <<SaColumn("p")>>)>>

\* no key and no requirement: no ORDER BY
C19_WitnessNone ==
    /\ call.name = "window"
    /\ t._require_order_by = {}
    /\ t._forbids_frame_clause = {}
    /\ op.func = Func("PercentRank", x)
    /\ op.frame = WindowFrame("rows", <<>>, <<>>, None, None, None)
    /\ result.exc = ""
    /\ result.val \in {"percent_rank() OVER ()", "(percent_rank() OVER () - 1)"}

(***************************************************************************)
(* C20: for a function whose kind is in the translator's                   *)
(* frame-clause-incompatible set, the emitted window has no ROWS or RANGE  *)
(* BETWEEN clause whatever the frame's start and end are, and it still has *)
(* the PARTITION BY of the frame's group-by keys and the ORDER BY of the   *)
(* frame's order-by keys (or the synthesized one of C19); this holds for   *)
(* format_window_frame, window and _window_function.                       *)
(***************************************************************************)
ForbidsFrame == op.func.node \in t._forbids_frame_clause

\* the frame with the ORDER BY window() gives it
Ordered ==
    IF OrderByIsArgument THEN [op.frame EXCEPT !.order_by = <<op.func.arg>>]
    ELSE op.frame

HasBoundary == op.frame.start # None \/ op.frame.end # None

C20_NoFrameClause ==
    (ForbidsFrame /\ result.exc = "") =>
        /\ call.name = "format_window_frame" => result.val = OverText(op.frame, <<>>)
        /\ call.name = "window" =>
                result.val = zero_based(op.func, translate(t, op.func).val \o " "
                                                    \o OverText(Ordered, <<>>))
        /\ call.name = "_window_function" =>
                /\ OverOf(result.val).how = ""
                /\ OverOf(result.val).bounds = <<>>
                /\ OverOf(result.val).partition_by =
                        AlchemyTranslateAll(t, op.frame.group_by).val
                /\ OverOf(result.val).order_by = OrderByFragments

\* both boundaries present, both keys emitted, no frame clause
C20_Witness ==
    /\ call.name = "window"
    /\ t._forbids_frame_clause = ForbidsFrameClause
    /\ op.func = RowNumber
    /\ op.frame = WindowFrame("rows", <<Column("g", int64)>>,
                              <<SortKey(Column("o", int64), TRUE)>>,
                              WindowBoundary(Literal(Num(2), int64), TRUE),
                              WindowBoundary(Literal(Num(1), int64), FALSE), None)
    /\ result.exc = ""
    /\ result.val = "(row_number() OVER (PARTITION BY g ORDER BY o) - 1)"

C20_WitnessAlchemy ==
    /\ call.name = "_window_function"
    /\ ForbidsFrame
    /\ op.func = Func("CumeDist", x)
    /\ op.frame.how = "range"
    /\ HasBoundary
    /\ op.frame.group_by = <<Column("g", int64), Column("h", int64)>>
    /\ Len(op.frame.order_by) = 1
    /\ result.exc = ""
    /\ result.val = SaOver(SaFunc("cume_dist", <<>>),
                           <<SaColumn("g"), SaColumn("h")>>,
                           <<SaFunc("asc", <<SaColumn("o")>>)>>, "", <<>>)

C20_WitnessFrame ==
    /\ call.name = "format_window_frame"
    /\ ForbidsFrame
    /\ HasBoundary
    /\ op.frame.group_by = <<Column("g", int64)>>
    /\ Len(op.frame.order_by) = 2
    /\ result.val = "OVER (PARTITION BY g ORDER BY o, p DESC)"

(***************************************************************************)
(* SpecOffsets: _window_function over frames whose boundaries are absent,  *)
(* literal (0 and 2, preceding and following) or a column expression.      *)
(***************************************************************************)
OffsetFuncs ==
    {Func("Sum", x), Func("Sum", Unregistered(int64)), RowNumber,
     Func("CumeDist", x), Func("CumulativeSum", x)}

OffsetValues == {Literal(Num(0), int64), Literal(Num(2), int64), Column("n", int64)}

OffsetBoundaries ==
    {None} \cup {WindowBoundary(v, p) : v \in OffsetValues, p \in BOOLEAN}

OffsetFrames ==
    {WindowFrame(k[1], <<>>, order_by, start, end, k[2]) :
        k \in FrameKinds,
        order_by \in {<<>>, <<SortKey(Column("o", int64), TRUE)>>},
        start \in OffsetBoundaries, end \in OffsetBoundaries}

InitOffsets ==
    /\ t \in {Translator({}, f, {}, FALSE) : f \in {{}, ForbidsFrameClause}}
    /\ RankBase = CoreRanks
    /\ op \in {WindowFunction(f, fr) : f \in OffsetFuncs, fr \in OffsetFrames}
    /\ call = NoCall
    /\ result = NotRun

NextOffsets == AlchemyWindowFunction

SpecOffsets == InitOffsets /\ [][NextOffsets]_vars

(***************************************************************************)
(* C21: in _window_function, a window whose function is neither            *)
(* frame-clause-incompatible nor a cumulative aggregate and whose start or *)
(* end boundary is present with a value that is not a literal returns no   *)
(* fragment; it fails with TranslationError unless an earlier step fails   *)
(* first (the translation of the function, or the rejection of a           *)
(* max-lookback).  The boundaries of a cumulative aggregate are replaced   *)
(* before they are translated, so its window does not fail on them.  A     *)
(* window whose boundaries are all absent or literal never fails with      *)
(* TranslationError.                                                       *)
(***************************************************************************)
IsNonLiteral(boundary) == boundary # None /\ boundary.value.node # "Literal"

HasNonLiteral == IsNonLiteral(op.frame.start) \/ IsNonLiteral(op.frame.end)

\* the frame clause is passed: the set is empty or the function is not in it
WantsFrameClause == op.func.node \notin t._forbids_frame_clause

C21_NonLiteralBoundary ==
    call.name = "_window_function" =>
        /\ (HasNonLiteral /\ WantsFrameClause /\ op.func.node \notin CumulativeOp) =>
                /\ result.exc # ""
                /\ result.exc = IF alchemy_translate(t, op.func).exc # ""
                                THEN alchemy_translate(t, op.func).exc
                                ELSE IF HasLookback THEN "NotImplementedError"
                                ELSE "TranslationError"
                /\ result.exc = "TranslationError" =>
                        result.msg = "Window boundaries must be literal values"
        /\ (op.func.node \in CumulativeOp /\ ~HasLookback) => result.exc = ""
        /\ ~HasNonLiteral => result.exc # "TranslationError"
        /\ ~WantsFrameClause => result.exc # "TranslationError"

C21_Witness ==
    /\ call.name = "_window_function"
    /\ op.func = Func("Sum", x)
    /\ op.frame.how = "range"
    /\ op.frame.start = WindowBoundary(Literal(Num(2), int64), TRUE)
    /\ op.frame.end = WindowBoundary(Column("n", int64), FALSE)
    /\ result.exc = "TranslationError"
    /\ "val" \notin DOMAIN result

\* a cumulative aggregate over a frame with a column boundary is translated
C21_WitnessCumulative ==
    /\ call.name = "_window_function"
    /\ op.func = Func("CumulativeSum", x)
    /\ IsNonLiteral(op.frame.start)
    /\ result.exc = ""
    /\ result.val.bounds = <<None, PyInt(Num(0))>>

\* the claim as stated: TranslationError whenever the function is not
\* frame-clause-incompatible and a boundary is not a literal
C21_AlwaysTranslationError ==
    (call.name = "_window_function" /\ HasNonLiteral /\ WantsFrameClause) =>
        /\ result.exc = "TranslationError"
        /\ "val" \notin DOMAIN result

(***************************************************************************)
(* C25: _window_function emits, for a frame whose boundaries are absent or *)
(* literal, the pair (start, end) in which an absent boundary is None, a   *)
(* literal v preceding is -v and a literal v following is v; a literal 0   *)
(* is 0 in either direction.                                               *)
(***************************************************************************)
\* the integer of a small Python int
AsInteger(n) == n[1] * Limb + n[2]

\* fragment is the signed offset of the boundary
IsSignedOffset(offset, boundary) ==
    IF boundary = None THEN offset = None
    ELSE /\ offset.node = "int"
         /\ IF boundary.preceding
            THEN AsInteger(offset.value) + AsInteger(boundary.value.value) = 0
            ELSE AsInteger(offset.value) = AsInteger(boundary.value.value)

C25_SignedOffsets ==
    (call.name = "_window_function" /\ result.exc = "" /\ WantsFrameClause
        /\ op.func.node \notin CumulativeOp) =>
        /\ ~HasNonLiteral
        /\ Len(OverOf(result.val).bounds) = 2
        /\ IsSignedOffset(OverOf(result.val).bounds[1], op.frame.start)
        /\ IsSignedOffset(OverOf(result.val).bounds[2], op.frame.end)
        /\ OverOf(result.val).how = IF op.frame.how = "rows" THEN "rows" ELSE "range_"

C25_Witness ==
    /\ call.name = "_window_function"
    /\ op.func = Func("Sum", x)
    /\ op.frame.how = "rows"
    /\ op.frame.start = WindowBoundary(Literal(Num(2), int64), TRUE)
    /\ op.frame.end = WindowBoundary(Literal(Num(2), int64), FALSE)
    /\ result.exc = ""
    /\ AsInteger(result.val.bounds[1].value) = 0 - 2
    /\ AsInteger(result.val.bounds[2].value) = 2

\* 0 preceding and 0 following are both 0; an absent end is None
C25_WitnessZero ==
    /\ call.name = "_window_function"
    /\ op.func = RowNumber
    /\ WantsFrameClause
    /\ op.frame.start = WindowBoundary(Literal(Num(0), int64), TRUE)
    /\ op.frame.end = None
    /\ result.exc = ""
    /\ result.val.left.bounds = <<PyInt(Num(0)), None>>

(***************************************************************************)
(* SpecVariance: the rule of Variance and StandardDev over an integer, a   *)
(* boolean and an untranslatable argument, with and without a filter       *)
(* predicate, on a dialect with or without the aggregate FILTER clause.    *)
(***************************************************************************)
VarianceArgs == {x, Column("b", boolean), Unregistered(int64)}

InitVariance ==
    /\ t \in {Translator({}, {}, {}, f) : f \in BOOLEAN}
    /\ RankBase = CoreRanks
    /\ op \in {VarianceNode(k, a, how, p) :
                k \in {"Variance", "StandardDev"}, a \in VarianceArgs,
                how \in DOMAIN suffix, p \in Predicates}
    /\ call = NoCall
    /\ result = NotRun

VarianceRule ==
    /\ call = NoCall
    /\ call' = [name |-> "variance_reduction"]
    /\ result' = variance_reduction(IF op.node = "Variance" THEN "var" ELSE "stddev",
                                    t, op)
    /\ UNCHANGED <<t, RankBase, op>>

NextVariance == VarianceRule \/ AlchemyTranslate

SpecVariance == InitVariance /\ [][NextVariance]_vars

(***************************************************************************)
(* C26: Variance and StandardDev aggregate CASE WHEN p THEN arg ELSE NULL  *)
(* END for a filter predicate p, never a FILTER clause, whether or not the *)
(* dialect has the aggregate FILTER clause; a boolean argument is cast to  *)
(* int32 first and the CASE wraps the cast; the SQL function is var_samp   *)
(* or stddev_samp for how = "sample" and var_pop or stddev_pop for         *)
(* how = "pop".                                                            *)
(***************************************************************************)
\* the argument, cast when boolean
VarianceOperand ==
    IF op.arg.dtype = boolean
    THEN SaCast(alchemy_translate(t, op.arg).val, get_sqla_type(int32))
    ELSE alchemy_translate(t, op.arg).val

\* what is aggregated
VarianceAggregated ==
    IF op.where = None THEN VarianceOperand
    ELSE SaCase(alchemy_translate(t, op.where).val, VarianceOperand, SaNull)

VarianceFunc ==
    IF op.node = "Variance"
    THEN (IF op.how = "sample" THEN "var_samp" ELSE "var_pop")
    ELSE (IF op.how = "sample" THEN "stddev_samp" ELSE "stddev_pop")

VarianceTranslates ==
    /\ alchemy_translate(t, op.arg).exc = ""
    /\ op.where # None => alchemy_translate(t, op.where).exc = ""

C26_Variance ==
    call.name \in {"variance_reduction", "translate"} =>
        /\ result.exc = "" <=> VarianceTranslates
        /\ result.exc = "" => result.val = SaFunc(VarianceFunc, <<VarianceAggregated>>)

\* a boolean argument under a predicate, on a dialect with FILTER
C26_Witness ==
    /\ call.name = "variance_reduction"
    /\ t._has_reduction_filter_syntax
    /\ op = VarianceNode("StandardDev", Column("b", boolean), "pop",
                         Greater(x, Literal(Num(0), int64)))
    /\ result.exc = ""
    /\ result.val =
        SaFunc("stddev_pop",
               <<SaCase(SaFunc("gt", <<SaColumn("x"), SaLiteral(Num(0))>>),
                        SaCast(SaColumn("b"), get_sqla_type(int32)),
                        SaNull)>>)

\* sample variance of an integer column without a predicate
C26_WitnessPlain ==
    /\ call.name = "translate"
    /\ op = VarianceNode("Variance", x, "sample", None)
    /\ result.exc = ""
    /\ result.val = SaFunc("var_samp", <<SaColumn("x")>>)

(***************************************************************************)
(* SpecWalk: the scope walk of get_sqla_table one statement at a time,     *)
(* over every chain of 1..MaxDepth scopes.  has_ref is the context's own:  *)
(* it reports a table bound when a scope binds it, and it may report a     *)
(* table bound that no scope of the chain binds.  call holds ctx_level     *)
(* (level), sa_table and the number of parent steps taken.                 *)
(***************************************************************************)
InitWalk ==
    /\ t \in {PlainTranslator @@ [context |-> ctx] : ctx \in Chains(FALSE, FALSE)}
    /\ RankBase = CoreRanks
    /\ op \in {Table("A", is_alchemy) : is_alchemy \in BOOLEAN}
    /\ call = NoCall
    /\ result = NotRun

\* lines 69-71: has_ref reported the table bound
WalkStart ==
    /\ call = NoCall
    /\ call' = [name |-> "walk", level |-> 1, steps |-> 0,
                sa_table |-> get_ref(t.context, 1, op)]
    /\ UNCHANGED <<t, RankBase, op, result>>

\* lines 72-74: one turn of the loop
WalkStep ==
    /\ call.name = "walk"
    /\ result = NotRun
    /\ call.steps <= MaxDepth
    /\ walks_on(t.context, call.level, call.sa_table)
    /\ call' = [call EXCEPT
                    !.level = parent(t.context, call.level),
                    !.steps = @ + 1,
                    !.sa_table = get_ref(t.context, parent(t.context, call.level), op)]
    /\ UNCHANGED <<t, RankBase, op, result>>

\* line 80, after the loop
WalkReturn ==
    /\ call.name = "walk"
    /\ result = NotRun
    /\ ~walks_on(t.context, call.level, call.sa_table)
    /\ result' = Return(call.sa_table, <<>>)
    /\ UNCHANGED <<t, RankBase, op, call>>

\* lines 75-80: has_ref reported the table not bound
NotBound ==
    /\ call = NoCall
    /\ ~has_ref(t.context, op, TRUE)
    /\ call' = [name |-> "get_sqla_table"]
    /\ result' = get_sqla_table(t.context, op)
    /\ UNCHANGED <<t, RankBase, op>>

NextWalk == WalkStart \/ WalkStep \/ WalkReturn \/ NotBound

\* a call that has started runs on: nothing else is scheduled in between
SpecWalk == InitWalk /\ [][NextWalk]_vars /\ WF_vars(WalkStep \/ WalkReturn)

(***************************************************************************)
(* C23: the scope walk of get_sqla_table terminates on every chain whose   *)
(* root is its own parent, after at most (chain length - 1) parent steps;  *)
(* when no scope of the chain binds the table it stops at the root and     *)
(* returns None, and otherwise it returns the innermost binding.           *)
(***************************************************************************)
Walking == call.name = "walk"
Returned == result.exc # "-"
NoBinding == \A level \in DOMAIN t.context : get_ref(t.context, level, op) = None

C23_WalkTerminates ==
    /\ [](Walking => call.steps <= Len(t.context) - 1)
    /\ []((Walking /\ Returned) =>
            /\ result.exc = ""
            /\ result.val = walk(t.context, 1, op).val
            /\ NoBinding => (result.val = None /\ call.level = Len(t.context)))
    /\ (Walking ~> Returned)

\* three scopes, none binds the table: two parent steps, then None
C23_Witness ==
    /\ Walking
    /\ Returned
    /\ Len(t.context) = 3
    /\ NoBinding
    /\ call.steps = 2
    /\ call.level = 3
    /\ result = Return(None, <<>>)

(***************************************************************************)
(* C24: window(), for a function it does not reject, converts the frame it *)
(* formats exactly when the frame is range-based and at least one of its   *)
(* order-by keys is temporal.  Such a frame with more than one key is      *)
(* rejected with the input error and nothing is emitted; with exactly one  *)
(* key, the key's expression is cast to int64 (and the boundaries are the  *)
(* converted ones).  A range frame without a temporal key and every        *)
(* row-based frame is formatted with its own keys and boundaries.          *)
(***************************************************************************)
\* the frame window() normalizes: that of the plain reduction for a
\* cumulative aggregate, with the ORDER BY synthesized when there is none
NormalizedFrame ==
    IF Emitted.func.node \in t._require_order_by /\ Emitted.frame.order_by = <<>>
    THEN [Emitted.frame EXCEPT !.order_by = <<SortKey(Emitted.func.arg, TRUE)>>]
    ELSE Emitted.frame

HasTemporalKey(frame) ==
    \E i \in DOMAIN frame.order_by : frame.order_by[i].dtype.name \in {"timestamp", "interval"}

IsConverted == NormalizedFrame.how = "range" /\ HasTemporalKey(NormalizedFrame)

\* the frame of the claim: the one key cast, the boundaries converted
CastFrame ==
    [NormalizedFrame EXCEPT
        !.order_by = <<SortKey(Cast(NormalizedFrame.order_by[1].expr, int64),
                               NormalizedFrame.order_by[1].ascending)>>,
        !.start = interval_boundary_to_integer(NormalizedFrame.start).val,
        !.end = interval_boundary_to_integer(NormalizedFrame.end).val]

BoundariesConvert ==
    /\ interval_boundary_to_integer(NormalizedFrame.start).exc = ""
    /\ interval_boundary_to_integer(NormalizedFrame.end).exc = ""

\* the text of window() over the given frame
TextOver(frame) ==
    zero_based(Emitted.func,
               translate(t, Emitted.func).val \o " "
                   \o format_window_frame(t, Emitted.func, frame).val)

C24_TimeRangeConversion ==
    (call.name = "window" /\ op.func.node \notin _unsupported_reductions) =>
        /\ (IsConverted /\ Len(NormalizedFrame.order_by) > 1) =>
                /\ result.exc = "IbisInputError"
                /\ result.msg = "Expected 1 order-by variable, got "
                                    \o ToString(Len(NormalizedFrame.order_by))
                /\ "val" \notin DOMAIN result
                /\ \A i \in DOMAIN result.log : result.log[i].node.node = "WindowFunction"
        /\ (IsConverted /\ Len(NormalizedFrame.order_by) = 1) =>
                /\ result.exc = "" <=> BoundariesConvert
                /\ result.exc = "" => result.val = TextOver(CastFrame)
        /\ ~IsConverted =>
                /\ result.exc = ""
                /\ result.val = TextOver(NormalizedFrame)

\* the synthesized temporal key of a rank function, cast
C24_Witness ==
    /\ call.name = "window"
    /\ op.func = Func("MinRank", ts)
    /\ op.frame = WindowFrame("range", <<>>, <<>>, None,
                              WindowBoundary(Literal(Num(2), interval("s")), FALSE), None)
    /\ t._require_order_by = RequireOrderBy
    /\ result.exc = ""
    /\ result.val = "(rank() OVER (ORDER BY CAST(ts AS bigint) "
                        \o "RANGE BETWEEN UNBOUNDED PRECEDING AND 2000000 FOLLOWING) - 1)"

\* two keys, one temporal, over a range frame: rejected
C24_WitnessRejected ==
    /\ call.name = "window"
    /\ op.func = Func("Sum", x)
    /\ op.frame.how = "range"
    /\ op.frame.order_by = <<SortKey(ts, FALSE), SortKey(o, TRUE)>>
    /\ result.exc = "IbisInputError"
    /\ result.msg = "Expected 1 order-by variable, got 2"
    /\ result.log = <<>>

\* the same keys over a row-based frame, and an interval boundary: untouched
C24_WitnessRows ==
    /\ call.name = "window"
    /\ op.func = Func("Sum", x)
    /\ op.frame = WindowFrame("rows", <<>>, <<SortKey(ts, FALSE), SortKey(o, TRUE)>>,
                              WindowBoundary(Literal(Num(2), interval("D")), TRUE),
                              None, None)
    /\ result.exc = ""
    /\ result.val = "sum(x) OVER (ORDER BY ts DESC, o "
                        \o "ROWS BETWEEN INTERVAL 2 D PRECEDING AND UNBOUNDED FOLLOWING)"

(***************************************************************************)
(* SpecExists: one translation of an existence subquery over a foreign     *)
(* table A or B, with no predicate, a translatable one, or one that has no *)
(* translation rule, under every chain of 1..MaxDepth scopes.              *)
(***************************************************************************)
ExistsPredicates ==
    {<<>>, <<Func("Greater", x)>>, <<Func("Greater", x), Unregistered(boolean)>>}

ExistsNodes ==
    {ExistsSubquery(Table(name, TRUE), preds) :
        name \in TableNames, preds \in ExistsPredicates}
    \cup {NotExistsSubquery(Table(name, TRUE), preds) :
        name \in TableNames, preds \in ExistsPredicates}

InitExists ==
    /\ t \in {PlainTranslator @@ [context |-> ctx] : ctx \in Chains(FALSE, FALSE)}
    /\ RankBase = CoreRanks
    /\ op \in ExistsNodes
    /\ call = NoCall
    /\ result = NotRun

ExistsSubqueryRule ==
    /\ call = NoCall
    /\ call' = [name |-> "_exists_subquery"]
    /\ result' = _exists_subquery(t, op)
    /\ t' = [t EXCEPT !.context = context_after(t.context, result'.log)]
    /\ UNCHANGED <<RankBase, op>>

NextExists == ExistsSubqueryRule

SpecExists == InitExists /\ [][NextExists]_vars

(***************************************************************************)
(* C22: each translation of an ExistsSubquery or NotExistsSubquery node    *)
(* creates exactly one child context, from the current context, and        *)
(* compiles the filtered projection of the foreign table on one literal    *)
(* column under that child and not under the current context; the result   *)
(* for NotExistsSubquery is the negation of the result for ExistsSubquery  *)
(* over the same foreign table and predicates (and fails as it fails);     *)
(* the bindings of the current context are the same after the translation  *)
(* as before.                                                              *)
(***************************************************************************)
EventsOf(fn) ==
    SelectSeq(result.log, LAMBDA e : e.ev = "call" /\ e.fn = fn)

IsFilteredProjection(query) ==
    /\ query.node = "Projection"
    /\ Len(query.selections) = 1
    /\ query.selections[1].arg.node = "Literal"
    /\ query.table.node = "Selection"
    /\ query.table.table = op.foreign_table
    /\ query.table.predicates = op.predicates

IsChildOf(sub_ctx, ctx) ==
    /\ Len(sub_ctx) = Len(ctx) + 1
    /\ Tail(sub_ctx) = ctx
    /\ \A name \in DOMAIN sub_ctx[1] : sub_ctx[1][name] = None

ExistsOutcome ==
    _exists_subquery(t, ExistsSubquery(op.foreign_table, op.predicates))

C22_ExistsSubquery ==
    /\ [](call.name = "_exists_subquery" =>
            /\ EventsOf("subcontext") = <<Called("subcontext", <<t.context>>)>>
            /\ Len(EventsOf("to_sql")) = 1
            /\ IsFilteredProjection(EventsOf("to_sql")[1].args[1])
            /\ IsChildOf(EventsOf("to_sql")[1].args[2], t.context)
            /\ EventsOf("to_sql")[1].args[2] # t.context
            /\ EventsOf("to_sql")[1].args[3] = TRUE
            /\ (op.node = "ExistsSubquery" /\ result.exc = "") =>
                    result.val = SaExists(EventsOf("to_sql")[1].args[1])
            /\ op.node = "NotExistsSubquery" =>
                    IF ExistsOutcome.exc = ""
                    THEN result.exc = "" /\ result.val = SaNot(ExistsOutcome.val)
                    ELSE result.exc = ExistsOutcome.exc)
    /\ [][call'.name = "_exists_subquery" => t'.context = t.context]_vars

C22_Witness ==
    /\ call.name = "_exists_subquery"
    /\ op.node = "NotExistsSubquery"
    /\ op.predicates # <<>>
    /\ result.exc = ""
    /\ result.val.sa = "not"
    /\ Len(t.context) > 1
    /\ t.context[1][op.foreign_table.name] # None

C22_WitnessExists ==
    /\ call.name = "_exists_subquery"
    /\ op.node = "ExistsSubquery"
    /\ result.exc = ""
    /\ result.val.sa = "exists"
    /\ t.context[1][op.foreign_table.name] = None

C22_WitnessFails ==
    /\ call.name = "_exists_subquery"
    /\ op.node = "NotExistsSubquery"
    /\ result.exc = "OperationNotDefinedError"

=============================================================================
